---- MODULE Spec2Model ----
(***************************************************************************)
(* Model of the problem-helper server (src/server/index.js, lines 1-890):  *)
(* the TTL cache, the CSRF guard, the subject classifier, the problem      *)
(* routes (analyze, list, get-by-id, rating) and the batch subject repair. *)
(*                                                                         *)
(* Time is counted in minutes (the code counts milliseconds; every TTL in  *)
(* the code is a whole number of minutes).  Every await of a handler is a  *)
(* point where other requests may run, so a handler is a chain of steps.   *)
(***************************************************************************)
EXTENDS Integers, Sequences, FiniteSets, TLC

\* ---------------------------------------------------------------- bounds
MaxTime == 4
MaxInflight == 2
MaxUploads == 2
MaxProblems == 2
MaxLegacy == 2

\* ------------------------------------------------------ program constants
DefaultTTL == 5
ListTTL == 3
DetailTTL == 10
SweepEvery == 50
FileSizeLimit == 5 * 1024 * 1024
QuestionMaxLen == 1000
PriorAnswerPrefix == 200

\* ------------------------------------------------------------- vocabulary
Null == "null"
\* A nullable column or an optional argument: <<>> for null, <<x>> for x.
None == <<>>
Some(x) == <<x>>

\* User ids (opaque); NoUser is the null userId of an anonymous legacy row.
NoUser == "null"
Users == {"1", "2"}
Anonymous == "anonymous"

Sessions == {"sA", "sB", "sAnon"}

\* passport's req.user of a session: sA and sB are logged in, sAnon is not.
SessionUser(s) ==
  CASE s = "sA" -> "1"
    [] s = "sB" -> "2"
    [] OTHER -> NoUser

\* Mutant of the login test: every session counts as logged in.
IsAuthenticatedAlways(s) == TRUE

IsAuthenticated(s) == SessionUser(s) # NoUser

\* ------------------------------------------------------------------ text
\* A text is a sequence of lexemes; " " and "\n" are the whitespace ones.
Whitespace == {" ", "\n"}

RECURSIVE TrimStart(_)
TrimStart(t) ==
  IF t = <<>> THEN <<>>
  ELSE IF Head(t) \in Whitespace THEN TrimStart(Tail(t)) ELSE t

RECURSIVE TrimEnd(_)
TrimEnd(t) ==
  IF t = <<>> THEN <<>>
  ELSE IF t[Len(t)] \in Whitespace THEN TrimEnd(SubSeq(t, 1, Len(t) - 1)) ELSE t

Trim(t) == TrimEnd(TrimStart(t))

\* ------------------------------------------------------------ classifier
AVAILABLE_SUBJECTS ==
  << <<"Mathematics - Algebra">>, <<"Mathematics - Geometry">>,
     <<"Mathematics - Calculus">>, <<"Mathematics - Statistics">>,
     <<"Mathematics - Trigonometry">>, <<"Physics - Mechanics">>,
     <<"Physics - Electricity">>, <<"Physics - Thermodynamics">>,
     <<"Physics - Optics">>, <<"Chemistry - Organic">>,
     <<"Chemistry - Inorganic">>, <<"Chemistry - Physical">>,
     <<"Biology - Cell Biology">>, <<"Biology - Genetics">>,
     <<"Biology - Ecology">>, <<"Computer Science - Programming">>,
     <<"Computer Science - Data Structures">>,
     <<"Computer Science - Algorithms">>, <<"Engineering - Mechanical">>,
     <<"Engineering - Electrical">>, <<"Engineering - Civil">>,
     <<"Economics">>, <<"Business">>, <<"Literature">>, <<"History">>,
     <<"Other">> >>

Includes(list, x) == \E i \in 1..Len(list) : list[i] = x

FallbackSubject == <<"Other">>

IsSubject(x) == Includes(AVAILABLE_SUBJECTS, x)

\* What the AI backend may answer to one generateContent call: a text, or a
\* failure (timeout, quota, malformed response).
AIFailure == [ok |-> FALSE, text |-> <<>>]
AIText(t) == [ok |-> TRUE, text |-> t]

AITexts ==
  { <<"Mathematics - Algebra">>,
    <<"Other">>,
    <<" ", "History", "\n">>,
    <<"history">>,
    <<"History", " ", "Literature">>,
    <<"The subject is", " ", "History">>,
    <<>> }

AIOutcomes == {AIText(t) : t \in AITexts} \cup {AIFailure}

\* Mutant of the classifier: the validation of the answer is dropped.
ClassifyUnchecked(outcome) ==
  IF ~outcome.ok THEN FallbackSubject ELSE Trim(outcome.text)

\* Mutant of the classifier: the answer is compared as it came, untrimmed.
ClassifyUntrimmed(outcome) ==
  IF ~outcome.ok
    THEN FallbackSubject
    ELSE IF Includes(AVAILABLE_SUBJECTS, outcome.text)
      THEN outcome.text
      ELSE FallbackSubject

\* Mutant of the classifier: the catch returns nothing.
ClassifyNoFallback(outcome) ==
  IF ~outcome.ok
    THEN <<>>
    ELSE IF Includes(AVAILABLE_SUBJECTS, Trim(outcome.text))
      THEN Trim(outcome.text)
      ELSE FallbackSubject

\* classifyProblemSubject, given the outcome of its one AI call.
ClassifyProblemSubject(outcome) ==
  IF ~outcome.ok
    THEN FallbackSubject
    ELSE LET classifiedSubject == Trim(outcome.text)
         IN IF Includes(AVAILABLE_SUBJECTS, classifiedSubject)
              THEN classifiedSubject
              ELSE FallbackSubject

\* ------------------------------------------------------------------ CSRF
NoSecret == "undefined"
\* the x-csrf-token header is absent; a token is a pair <<salt, digest>>
NoToken == <<>>
Secrets == {"k1", "k2", "k3"}
Salts == {"salt1", "salt2"}

\* csrf's digest of salt and secret; distinct inputs give distinct digests.
Tokenize(secret, salt) == <<salt, <<"sha1", salt, secret>> >>

CsrfCreate(secret, salt) == Tokenize(secret, salt)

\* Mutant of verify: only the shape of the token is examined.
CsrfVerifyShape(secret, token) ==
  /\ token # NoToken
  /\ Len(token) = 2

\* csrfTokens.verify(secret, token): recomputes the token from its salt.
CsrfVerify(secret, token) ==
  /\ secret # NoSecret
  /\ token # NoToken
  /\ Len(token) = 2
  /\ Tokenize(secret, token[1]) = token

ForgedToken == <<"salt1", <<"forged">> >>

\* the x-csrf-token headers a client may send
PresentedTokens ==
  {NoToken, ForgedToken} \cup {CsrfCreate(k, "salt1") : k \in Secrets}

\* -------------------------------------------------------- middleware order
\* app.use / app.get registrations of the secured server, in source order.
\* Express runs them in this order; a handler sees what earlier ones set up.
Registrations ==
  << "helmet", "generalLimiter", "hpp", "mongoSanitize",
     "GET /api/csrf-token", "session", "passport", "cors", "bodyParsers",
     "csrfProtection", "routes", "errorHandler" >>

Position(name) == CHOOSE i \in 1..Len(Registrations) : Registrations[i] = name

\* req.session exists in a handler only when express-session ran before it.
HasSession(handler) == Position("session") < Position(handler)

\* A request path, as its segments.
IsAuthPath(path) == Len(path) >= 1 /\ path[1] = "auth"

\* Mutant of the guard: a missing session secret lets the request through.
CsrfProtectionOpen(method, path, token, secret) ==
  \/ method = "GET"
  \/ IsAuthPath(path)
  \/ secret = NoSecret
  \/ (token # NoToken /\ CsrfVerify(secret, token))

\* csrfProtection: TRUE when the request is passed on (next()), FALSE when it
\* is answered 403 'Invalid CSRF token'.
CsrfProtection(method, path, token, secret) ==
  \/ method = "GET"
  \/ IsAuthPath(path)
  \/ (token # NoToken /\ secret # NoSecret /\ CsrfVerify(secret, token))

\* ----------------------------------------------------------------- cache
\* The Map of the Cache instance: a function from the keys present to
\* [value, expiry].  Keys are modelled as tuples:
\*   <<"problems","all">>        for `problems:all`
\*   <<"problems","user",u>>     for `problems:user_${u}` (u a user id or 'anonymous')
\*   <<"problem",id>>            for `problem:${id}`
KeyAll == <<"problems", "all">>
KeyUser(u) == <<"problems", "user", u>>
KeyProblem(id) == <<"problem", id>>

IsUserListKey(k) == Len(k) = 3 /\ k[1] = "problems" /\ k[2] = "user"

\* get's test of an entry: Date.now() > item.expiry
Expired(item, t) == t > item.expiry

\* Mutant of cleanup's test: an entry goes at the instant of its expiry.
CleanupExpiredInclusive(item, t) == t >= item.expiry

\* cleanup's test of an entry: now > item.expiry
CleanupExpired(item, t) == t > item.expiry

\* Mutant of cleanup: every entry goes, expired or not.
CacheCleanupAll(c, t) == <<>>

CacheCleanup(c, t) ==
  [k \in {x \in DOMAIN c : ~CleanupExpired(c[x], t)} |-> c[k]]

\* Mutant of set: the ttl argument is ignored, the default is used.
CacheSetDefaultTTL(c, k, v, ttl, t) ==
  [x \in DOMAIN c \cup {k} |->
     IF x = k THEN [value |-> v, expiry |-> t + DefaultTTL] ELSE c[x]]

\* Mutant of set: an entry already stored keeps the later of the two expiries.
CacheSetKeepLater(c, k, v, ttl, t) ==
  LET e == IF k \in DOMAIN c /\ c[k].expiry > t + ttl THEN c[k].expiry ELSE t + ttl
      c1 == [x \in DOMAIN c \cup {k} |->
               IF x = k THEN [value |-> v, expiry |-> e] ELSE c[x]]
  IN IF Cardinality(DOMAIN c1) % SweepEvery = 0 THEN CacheCleanup(c1, t) ELSE c1

CacheSet(c, k, v, ttl, t) ==
  LET c1 == [x \in DOMAIN c \cup {k} |->
               IF x = k THEN [value |-> v, expiry |-> t + ttl] ELSE c[x]]
  IN IF Cardinality(DOMAIN c1) % SweepEvery = 0 THEN CacheCleanup(c1, t) ELSE c1

\* Mutant of delete: the entry stays.
CacheDeleteNothing(c, k) == c

CacheDelete(c, k) == [x \in DOMAIN c \ {k} |-> c[x]]

CacheClearAll(c) == <<>>

\* Mutant of get: the expiry of the entry is not looked at.
CacheGetNoExpiry(c, k, t) ==
  IF k \notin DOMAIN c THEN [value |-> None, cache |-> c]
  ELSE [value |-> Some(c[k].value), cache |-> c]

\* get: the value returned (None for null) and the Map afterwards.
CacheGet(c, k, t) ==
  IF k \notin DOMAIN c THEN [value |-> None, cache |-> c]
  ELSE IF Expired(c[k], t)
    THEN [value |-> None, cache |-> CacheDelete(c, k)]
    ELSE [value |-> Some(c[k].value), cache |-> c]

\* A Map iterates its keys in insertion order: a key that was deleted and set
\* again moves to the end, a key set while present keeps its place.  The
\* order after a call that took the Map to c2 (a call inserts one key at most).
OrderAfter(order, c2) ==
  LET Kept(k) == k \in DOMAIN c2
      kept == SelectSeq(order, Kept)
      new == DOMAIN c2 \ {order[i] : i \in DOMAIN order}
  IN IF new = {} THEN kept ELSE Append(kept, CHOOSE k \in new : TRUE)

\* The Cache to compare with: set stores the entry and never sweeps.
SetWithoutSweep(c, k, v, ttl, t) ==
  [x \in DOMAIN c \cup {k} |->
     IF x = k THEN [value |-> v, expiry |-> t + ttl] ELSE c[x]]

ShadowOf(c, order) == [order |-> order, plain |-> c, plainOrder |-> order]

\* Mutant of getStats: the Map is reported as it is, without the cleanup.
CacheGetStatsUnswept(c, t) ==
  [size |-> Cardinality(DOMAIN c), keys |-> DOMAIN c, cache |-> c]

\* getStats: cleanup first, then the Map's size and keys
CacheGetStats(c, t) ==
  LET c1 == CacheCleanup(c, t)
  IN [size |-> Cardinality(DOMAIN c1), keys |-> DOMAIN c1, cache |-> c1]

\* ------------------------------------------------------------ persistence
\* The problems table: a sequence of rows, row i having id i (autoincrement,
\* rows are never deleted).  createdAt grows with the id.
Row(id, userId, subject, rating) ==
  [id |-> id, userId |-> userId, subject |-> subject, rating |-> rating]

RECURSIVE Reverse(_)
Reverse(sq) == IF sq = <<>> THEN <<>> ELSE Append(Reverse(Tail(sq)), Head(sq))

\* where: None for the empty where clause, Some(u) for {userId: u}.
RECURSIVE SelectRows(_, _)
SelectRows(rows, where) ==
  IF rows = <<>> THEN <<>>
  ELSE IF where = None \/ Head(rows).userId = where[1]
    THEN <<Head(rows)>> \o SelectRows(Tail(rows), where)
    ELSE SelectRows(Tail(rows), where)

\* Mutant of the list query: rows come back oldest first.
FindManyOldestFirst(rows, where) == SelectRows(rows, where)

\* prisma.problem.findMany({where, orderBy: {createdAt: 'desc'}})
FindMany(rows, where) == Reverse(SelectRows(rows, where))

RECURSIVE UnclassifiedIds(_)
UnclassifiedIds(rows) ==
  IF rows = <<>> THEN <<>>
  ELSE IF Head(rows).subject = None
    THEN <<Head(rows).id>> \o UnclassifiedIds(Tail(rows))
    ELSE UnclassifiedIds(Tail(rows))

RECURSIVE AllIds(_)
AllIds(rows) ==
  IF rows = <<>> THEN <<>> ELSE <<Head(rows).id>> \o AllIds(Tail(rows))

\* Mutant of the repair query: the `subject: null` filter is dropped.
FindAllForRepair(rows) == AllIds(rows)

\* prisma.problem.findMany({where: {subject: null}}), the ids selected.
FindUnclassified(rows) == UnclassifiedIds(rows)

\* prisma.problem.findUnique({where: {id}}): None when no row has the id.
FindUnique(rows, id) == IF id \in 1..Len(rows) THEN Some(rows[id]) ELSE None

\* ------------------------------------------------------------------ state
VARIABLES
  nodeEnv,        \* process.env.NODE_ENV of the deployment
  now,            \* Date.now(), in minutes
  problems,       \* the problems table
  cache,          \* problemCache.cache
  sessionSecret,  \* req.session.csrfSecret of every session
  tmpFiles,       \* the files present in uploads/
  uploads,        \* how many files multer has stored so far (names the next)
  inflight,       \* the requests being handled, each at its await
  last,           \* the request answered last, with its response
  clientCsrf,     \* the state of every useCSRF instance in the browser of every session
  writeDoneAt,    \* when the latest create / rating / repair was answered
  shadow          \* for the Cache methods called one at a time: the insertion
                  \* order of the Map's keys, and the Map and key order of a
                  \* Cache given the same calls whose set never sweeps

vars == <<nodeEnv, now, problems, cache, sessionSecret, tmpFiles, uploads, inflight, last,
          clientCsrf, writeDoneAt, shadow>>

Slots == 1..MaxInflight
Idle == [kind |-> "idle"]

HasFreeSlot == \E i \in Slots : inflight[i].kind = "idle"
FreeSlot == CHOOSE i \in Slots :
  /\ inflight[i].kind = "idle"
  /\ \A j \in Slots : inflight[j].kind = "idle" => i <= j

Busy(kind) == {i \in Slots : inflight[i].kind = kind}

Response(r, status, error, body) ==
  [req |-> r, status |-> status, error |-> error, body |-> body]

\* NODE_ENV as the deployment sets it ("undefined": not set at all)
NodeEnvs == {"production", "development", "undefined"}

\* the messages of the errors that reach the global error handler
SessionTypeError == "Cannot set properties of undefined (setting 'csrfSecret')"
FileTooLarge == "File too large"

\* Mutant of the error handler: the message is sent in every deployment.
ErrorHandlerVerbose(r, env, message) ==
  Response(r, 500, "Internal server error", [details |-> Some(message)])

\* The global error handler's answer to an error with this message.
ErrorHandler(r, env, message) ==
  Response(r, 500, "Internal server error",
           [details |-> IF env = "production" THEN None ELSE Some(message)])

\* the component instances that mount useCSRF
Hooks == {"App", "useProtectedFetch"}

\* The rows the old (pre-subject) deployment left in the table.
LegacyRowSets ==
  {<<>>} \cup
  { [i \in 1..n |-> Row(i, owner[i], None, Null)] :
      n \in 1..MaxLegacy, owner \in [1..MaxLegacy -> {NoUser, "1"}] }

InitState ==
  /\ now = 0
  /\ problems \in LegacyRowSets
  /\ cache = <<>>
  /\ tmpFiles = {}
  /\ uploads = 0
  /\ inflight = [i \in Slots |-> Idle]
  /\ last = Response([kind |-> "none"], 0, "", <<>>)
  /\ writeDoneAt = 0
  /\ shadow = ShadowOf(<<>>, <<>>)

\* ... in a production deployment
InitCommon == nodeEnv = "production" /\ InitState

\* The server as started: no session holds a CSRF secret, and no browser
\* has fetched a token yet.
Init ==
  /\ InitCommon
  /\ sessionSecret = [s \in Sessions |-> NoSecret]
  /\ clientCsrf = [s \in Sessions |-> [h \in Hooks |->
                       [csrfToken |-> NoToken, loading |-> TRUE, error |-> FALSE]]]

\* ---------------------------------------------------------------- actions
Tick ==
  /\ now < MaxTime
  /\ now' = now + 1
  /\ UNCHANGED <<shadow, nodeEnv, problems, cache, sessionSecret, tmpFiles, uploads, inflight, last,
               clientCsrf, writeDoneAt>>

\* GET /api/csrf-token, asked by fetchCSRFToken of the useCSRF instance h.
\* secretSync draws a
\* fresh random secret.  The browser keeps the token of an ok response and
\* records an error otherwise.
CsrfTokenRoute(s, h, secret, salt) ==
  LET r == [kind |-> "csrf-token", session |-> s]
  IN /\ \A x \in Sessions : sessionSecret[x] # secret
     /\ IF HasSession("GET /api/csrf-token")
          THEN /\ sessionSecret' = [sessionSecret EXCEPT ![s] = secret]
               /\ last' = Response(r, 200, "", [csrfToken |-> CsrfCreate(secret, salt)])
               /\ clientCsrf' = [clientCsrf EXCEPT ![s][h] =
                     [csrfToken |-> CsrfCreate(secret, salt), loading |-> FALSE, error |-> FALSE]]
          ELSE \* req.session is undefined: the assignment throws a TypeError,
               \* which the global error handler answers
               /\ sessionSecret' = sessionSecret
               /\ last' = ErrorHandler(r, nodeEnv, SessionTypeError)
               /\ clientCsrf' = [clientCsrf EXCEPT ![s][h].loading = FALSE,
                                                   ![s][h].error = TRUE]
     /\ UNCHANGED <<shadow, nodeEnv, now, problems, cache, tmpFiles, uploads, inflight, writeDoneAt>>

\* ---- POST /api/analyze-problem
\* Mutant of the allow-list: plain text is let through.
AllowedMimeTypesLoose ==
  {"image/jpeg", "image/png", "image/gif", "image/webp", "text/plain"}

AllowedMimeTypes == {"image/jpeg", "image/png", "image/gif", "image/webp"}

UploadInputs ==
  { None,
    Some([mimetype |-> "image/jpeg", size |-> 1024]),
    Some([mimetype |-> "text/plain", size |-> 1024]),
    Some([mimetype |-> "image/jpeg", size |-> FileSizeLimit + 1]) }

\* the question field, by its length
QuestionInputs == {None, Some(QuestionMaxLen), Some(QuestionMaxLen + 1)}

Unlink(files, f) == files \ {f}

\* Everything up to the handler's first await: csrfProtection, requireAuth,
\* multer, the validators, handleValidationErrors, the handler's own checks.
AnalyzeBegin(s, tok, upload, q) ==
  LET pass == CsrfProtection("POST", <<"api", "analyze-problem">>, tok, sessionSecret[s])
      auth == IsAuthenticated(s)
      tooBig == upload # None /\ upload[1].size > FileSizeLimit
      stored == pass /\ auth /\ upload # None /\ ~tooBig
      f == uploads + 1
      r == [kind |-> "analyze", session |-> s, token |-> tok,
            secret |-> sessionSecret[s], upload |-> upload, question |-> q,
            file |-> IF stored THEN Some(f) ELSE None]
      outcome ==
        CASE ~pass -> "csrf"
          [] ~auth -> "auth"
          [] tooBig -> "multer"
          [] q # None /\ q[1] > QuestionMaxLen -> "validation"
          [] upload = None -> "nofile"
          [] upload[1].mimetype \notin AllowedMimeTypes -> "mime"
          [] upload[1].size > FileSizeLimit -> "size"
          [] OTHER -> "run"
  IN /\ HasFreeSlot
     /\ stored => uploads < MaxUploads
     /\ outcome = "run" => Len(problems) + Cardinality(Busy("analyze")) < MaxProblems
     /\ uploads' = IF stored THEN f ELSE uploads
     /\ tmpFiles' =
          CASE outcome \in {"validation", "run"} -> tmpFiles \cup {f}
            [] outcome \in {"mime", "size"} -> Unlink(tmpFiles \cup {f}, f)
            [] OTHER -> tmpFiles
     /\ inflight' =
          IF outcome = "run"
            THEN [inflight EXCEPT ![FreeSlot] =
                    [kind |-> "analyze", pc |-> "explain", req |-> r,
                     aiCalls |-> 0, answer |-> None, subject |-> None, id |-> 0]]
            ELSE inflight
     /\ last' =
          CASE outcome = "csrf" -> Response(r, 403, "Invalid CSRF token", <<>>)
            [] outcome = "auth" -> Response(r, 401, "Authentication required", <<>>)
            [] outcome = "multer" -> ErrorHandler(r, nodeEnv, FileTooLarge)
            [] outcome = "validation" -> Response(r, 400, "Validation failed", <<>>)
            [] outcome = "nofile" -> Response(r, 400, "No image uploaded", <<>>)
            [] outcome = "mime" -> Response(r, 400, "Invalid file type", <<>>)
            [] outcome = "size" -> Response(r, 400, "File too large", <<>>)
            [] OTHER -> last
     /\ UNCHANGED <<shadow, nodeEnv, now, problems, cache, sessionSecret, clientCsrf, writeDoneAt>>

\* Mutant of the explanation step: a failed call leaves a partial row behind.
AnalyzeExplainPartial(i, ok) ==
  LET c == inflight[i]
  IN /\ c.kind = "analyze" /\ c.pc = "explain"
     /\ IF ok
          THEN /\ inflight' = [inflight EXCEPT ![i].pc = "classify", ![i].aiCalls = 1]
               /\ UNCHANGED <<tmpFiles, last, problems>>
          ELSE /\ inflight' = [inflight EXCEPT ![i] = Idle]
               /\ tmpFiles' = tmpFiles \ {c.req.file[1]}
               /\ problems' = Append(problems,
                     [id |-> Len(problems) + 1, userId |-> SessionUser(c.req.session),
                      subject |-> None, rating |-> Null])
               /\ last' = Response(c.req, 500, "Failed to analyze the problem",
                                    [aiCalls |-> c.aiCalls])
     /\ UNCHANGED <<shadow, nodeEnv, now, cache, sessionSecret, uploads, clientCsrf, writeDoneAt>>

\* The tutoring call returns, or throws into the handler's catch.  (The body
\* of a 500 records how many AI calls had returned, for the properties.)
AnalyzeExplain(i, ok) ==
  LET c == inflight[i]
  IN /\ c.kind = "analyze" /\ c.pc = "explain"
     /\ IF ok
          THEN /\ inflight' = [inflight EXCEPT ![i].pc = "classify", ![i].aiCalls = 1]
               /\ UNCHANGED <<tmpFiles, last>>
          ELSE /\ inflight' = [inflight EXCEPT ![i] = Idle]
               /\ tmpFiles' = Unlink(tmpFiles, c.req.file[1])
               /\ last' = Response(c.req, 500, "Failed to analyze the problem",
                                    [aiCalls |-> c.aiCalls])
     /\ UNCHANGED <<shadow, nodeEnv, now, problems, cache, sessionSecret, uploads, clientCsrf, writeDoneAt>>

\* classifyProblemSubject returns (it never throws).  (answer records what
\* the AI call gave, for the properties.)
AnalyzeClassify(i, outcome) ==
  LET c == inflight[i]
  IN /\ c.kind = "analyze" /\ c.pc = "classify"
     /\ inflight' = [inflight EXCEPT ![i].pc = "create", ![i].aiCalls = 2,
                                     ![i].answer = Some(outcome),
                                     ![i].subject = Some(ClassifyProblemSubject(outcome))]
     /\ UNCHANGED <<shadow, nodeEnv, now, problems, cache, sessionSecret, tmpFiles, uploads, last, clientCsrf, writeDoneAt>>

\* Mutant of the created row: the requester is not recorded as its owner.
NewProblemUnowned(c, id) == Row(id, NoUser, c.subject, Null)

\* the row prisma.problem.create is given
NewProblem(c, id) == Row(id, SessionUser(c.req.session), c.subject, Null)

\* Mutant of the create step: the lists are invalidated before the write is
\* known to have succeeded.
AnalyzeCreateInvalidatesFirst(i, dbOk) ==
  LET c == inflight[i]
      id == Len(problems) + 1
  IN /\ c.kind = "analyze" /\ c.pc = "create"
     /\ cache' = CacheDelete(cache, KeyAll)
     /\ IF dbOk
          THEN /\ problems' = Append(problems, NewProblem(c, id))
               /\ inflight' = [inflight EXCEPT ![i].pc = "created", ![i].id = id]
               /\ UNCHANGED <<tmpFiles, last>>
          ELSE /\ inflight' = [inflight EXCEPT ![i] = Idle]
               /\ tmpFiles' = Unlink(tmpFiles, c.req.file[1])
               /\ last' = Response(c.req, 500, "Failed to analyze the problem",
                                    [aiCalls |-> c.aiCalls])
               /\ UNCHANGED problems
     /\ UNCHANGED <<shadow, nodeEnv, now, sessionSecret, uploads, clientCsrf, writeDoneAt>>

\* prisma.problem.create commits, or throws into the handler's catch.
AnalyzeCreate(i, dbOk) ==
  LET c == inflight[i]
      id == Len(problems) + 1
  IN /\ c.kind = "analyze" /\ c.pc = "create"
     /\ IF dbOk
          THEN /\ problems' = Append(problems, NewProblem(c, id))
               /\ inflight' = [inflight EXCEPT ![i].pc = "created", ![i].id = id]
               /\ UNCHANGED <<tmpFiles, last>>
          ELSE /\ inflight' = [inflight EXCEPT ![i] = Idle]
               /\ tmpFiles' = Unlink(tmpFiles, c.req.file[1])
               /\ last' = Response(c.req, 500, "Failed to analyze the problem",
                                    [aiCalls |-> c.aiCalls])
               /\ UNCHANGED problems
     /\ UNCHANGED <<shadow, nodeEnv, now, cache, sessionSecret, uploads, clientCsrf, writeDoneAt>>

\* Mutant of the invalidation: the creator's own list is forgotten.
AnalyzeInvalidateAllOnly(c, userId) == CacheDelete(c, KeyAll)

AnalyzeInvalidate(c, userId) ==
  CacheDelete(CacheDelete(c, KeyAll), KeyUser(userId))

\* After the create: invalidate the lists, remove the upload, answer.
AnalyzeFinish(i) ==
  LET c == inflight[i]
      userId == SessionUser(c.req.session)
  IN /\ c.kind = "analyze" /\ c.pc = "created"
     /\ cache' = AnalyzeInvalidate(cache, userId)
     /\ tmpFiles' = Unlink(tmpFiles, c.req.file[1])
     /\ inflight' = [inflight EXCEPT ![i] = Idle]
     /\ last' = Response(c.req, 200, "",
                          [problemId |-> c.id, subject |-> c.subject[1],
                           aiCalls |-> c.aiCalls, answer |-> c.answer[1]])
     /\ writeDoneAt' = now
     /\ UNCHANGED <<shadow, nodeEnv, now, problems, sessionSecret, uploads, clientCsrf>>

\* ---- GET /api/problems
\* the `mine` query parameter: absent, or its text ("yes" is no boolean)
MineInputs == {None, Some("true"), Some("false"), Some("yes")}

IsBooleanText(x) == x \in {"true", "false", "1", "0"}

\* Mutant of the list key: every list is cached under `problems:all`.
ListCacheKeyShared(s, mine) == KeyAll

ListCacheKey(s, mine) ==
  LET userId == IF IsAuthenticated(s) THEN SessionUser(s) ELSE Anonymous
  IN IF mine = Some("true") THEN KeyUser(userId) ELSE KeyAll

ListWhere(s, mine) ==
  IF mine = Some("true") /\ IsAuthenticated(s) THEN Some(SessionUser(s)) ELSE None

\* Validation and the cache lookup; a miss issues the query.
ListBegin(s, mine) ==
  LET r == [kind |-> "list", session |-> s, mine |-> mine]
      invalid == mine # None /\ ~IsBooleanText(mine[1])
      key == ListCacheKey(s, mine)
      got == CacheGet(cache, key, now)
  IN /\ HasFreeSlot
     /\ IF invalid
          THEN /\ last' = Response(r, 400, "Validation failed", <<>>)
               /\ UNCHANGED <<cache, inflight>>
          ELSE /\ cache' = got.cache
               /\ IF got.value # None
                    THEN /\ last' = Response(r, 200, "", [from |-> "cache", rows |-> got.value[1]])
                         /\ UNCHANGED inflight
                    ELSE /\ inflight' = [inflight EXCEPT ![FreeSlot] =
                                [kind |-> "list", pc |-> "query", req |-> r,
                                 key |-> key, rows |-> <<>>]]
                         /\ UNCHANGED last
     /\ UNCHANGED <<shadow, nodeEnv, now, problems, sessionSecret, tmpFiles, uploads, clientCsrf, writeDoneAt>>

\* prisma.problem.findMany reads the table, or throws.
ListQuery(i, dbOk) ==
  LET c == inflight[i]
  IN /\ c.kind = "list" /\ c.pc = "query"
     /\ IF dbOk
          THEN /\ inflight' = [inflight EXCEPT ![i].pc = "fill",
                   ![i].rows = FindMany(problems, ListWhere(c.req.session, c.req.mine))]
               /\ UNCHANGED last
          ELSE /\ inflight' = [inflight EXCEPT ![i] = Idle]
               /\ last' = Response(c.req, 500, "Failed to fetch problems", <<>>)
     /\ UNCHANGED <<shadow, nodeEnv, now, problems, cache, sessionSecret, tmpFiles, uploads, clientCsrf, writeDoneAt>>

\* After the query: cache the rows for 3 minutes and answer with them.
ListFill(i) ==
  LET c == inflight[i]
  IN /\ c.kind = "list" /\ c.pc = "fill"
     /\ cache' = CacheSet(cache, c.key, c.rows, ListTTL, now)
     /\ inflight' = [inflight EXCEPT ![i] = Idle]
     /\ last' = Response(c.req, 200, "", [from |-> "db", rows |-> c.rows])
     /\ UNCHANGED <<shadow, nodeEnv, now, problems, sessionSecret, tmpFiles, uploads, clientCsrf, writeDoneAt>>

\* ---- GET /api/problems/:id
\* the id parameter (isInt({min: 1}) refuses 0)
IdInputs == 0..(MaxProblems + 1)

GetBegin(id) ==
  LET r == [kind |-> "get", id |-> id]
      key == KeyProblem(id)
      got == CacheGet(cache, key, now)
  IN /\ HasFreeSlot
     /\ IF id < 1
          THEN /\ last' = Response(r, 400, "Validation failed", <<>>)
               /\ UNCHANGED <<cache, inflight>>
          ELSE /\ cache' = got.cache
               /\ IF got.value # None
                    THEN /\ last' = Response(r, 200, "", [from |-> "cache", row |-> got.value[1]])
                         /\ UNCHANGED inflight
                    ELSE /\ inflight' = [inflight EXCEPT ![FreeSlot] =
                                [kind |-> "get", pc |-> "query", req |-> r,
                                 key |-> key, found |-> None]]
                         /\ UNCHANGED last
     /\ UNCHANGED <<shadow, nodeEnv, now, problems, sessionSecret, tmpFiles, uploads, clientCsrf, writeDoneAt>>

GetQuery(i, dbOk) ==
  LET c == inflight[i]
  IN /\ c.kind = "get" /\ c.pc = "query"
     /\ IF dbOk
          THEN /\ inflight' = [inflight EXCEPT ![i].pc = "fill",
                                  ![i].found = FindUnique(problems, c.req.id)]
               /\ UNCHANGED last
          ELSE /\ inflight' = [inflight EXCEPT ![i] = Idle]
               /\ last' = Response(c.req, 500, "Failed to fetch problem", <<>>)
     /\ UNCHANGED <<shadow, nodeEnv, now, problems, cache, sessionSecret, tmpFiles, uploads, clientCsrf, writeDoneAt>>

\* Mutant of the answer: the miss is cached too, as a row without content.
GetFillCachesMiss(i) ==
  LET c == inflight[i]
      v == IF c.found = None THEN Row(c.req.id, NoUser, None, Null) ELSE c.found[1]
  IN /\ c.kind = "get" /\ c.pc = "fill"
     /\ inflight' = [inflight EXCEPT ![i] = Idle]
     /\ cache' = CacheSet(cache, c.key, v, DetailTTL, now)
     /\ last' = IF c.found = None THEN Response(c.req, 404, "Problem not found", <<>>)
                ELSE Response(c.req, 200, "", [from |-> "db", row |-> v])
     /\ UNCHANGED <<shadow, nodeEnv, now, problems, sessionSecret, tmpFiles, uploads, clientCsrf, writeDoneAt>>

\* After the query: 404, or cache the row for 10 minutes and answer with it.
GetFill(i) ==
  LET c == inflight[i]
  IN /\ c.kind = "get" /\ c.pc = "fill"
     /\ inflight' = [inflight EXCEPT ![i] = Idle]
     /\ IF c.found = None
          THEN /\ last' = Response(c.req, 404, "Problem not found", <<>>)
               /\ UNCHANGED cache
          ELSE /\ cache' = CacheSet(cache, c.key, c.found[1], DetailTTL, now)
               /\ last' = Response(c.req, 200, "", [from |-> "db", row |-> c.found[1]])
     /\ UNCHANGED <<shadow, nodeEnv, now, problems, sessionSecret, tmpFiles, uploads, clientCsrf, writeDoneAt>>

\* ---- PUT /api/problems/:id/rating
\* Mutant of the accepted ratings: one more value passes the validators.
RatingsLoose == {"thumbs_up", "thumbs_down", "meh"}

Ratings == {"thumbs_up", "thumbs_down"}
RatingInputs == Ratings \cup {"meh"}

\* Mutant of the ownership test: any authenticated user may rate.
OwnsAnyone(row, userId) == TRUE

Owns(row, userId) == row.userId = userId

\* csrfProtection, requireAuth, the validators, for a request that finds
\* `secret` in its session.
RatingArrive(s, tok, id, rating, secret) ==
  LET pass == CsrfProtection("PUT", <<"api", "problems", "rating">>, tok, secret)
      r == [kind |-> "rating", session |-> s, token |-> tok,
            secret |-> secret, id |-> id, rating |-> rating]
      outcome ==
        CASE ~pass -> "csrf"
          [] ~IsAuthenticated(s) -> "auth"
          [] id < 1 \/ rating \notin Ratings -> "validation"
          [] OTHER -> "run"
  IN /\ HasFreeSlot
     /\ inflight' =
          IF outcome = "run"
            THEN [inflight EXCEPT ![FreeSlot] =
                    [kind |-> "rating", pc |-> "find", req |-> r, found |-> None]]
            ELSE inflight
     /\ last' =
          CASE outcome = "csrf" -> Response(r, 403, "Invalid CSRF token", <<>>)
            [] outcome = "auth" -> Response(r, 401, "Authentication required", <<>>)
            [] outcome = "validation" -> Response(r, 400, "Validation failed", <<>>)
            [] OTHER -> last
     /\ UNCHANGED <<shadow, nodeEnv, now, problems, cache, tmpFiles, uploads, writeDoneAt>>

RatingBegin(s, tok, id, rating) ==
  /\ RatingArrive(s, tok, id, rating, sessionSecret[s])
  /\ UNCHANGED <<sessionSecret, clientCsrf>>

\* findUnique returns the row's owner; then the not-found and ownership tests.
RatingFind(i, dbOk) ==
  LET c == inflight[i]
      found == FindUnique(problems, c.req.id)
      userId == SessionUser(c.req.session)
  IN /\ c.kind = "rating" /\ c.pc = "find"
     /\ IF dbOk /\ found # None /\ Owns(found[1], userId)
          THEN /\ inflight' = [inflight EXCEPT ![i].pc = "update"]
               /\ UNCHANGED last
          ELSE /\ inflight' = [inflight EXCEPT ![i] = Idle]
               /\ last' =
                    CASE ~dbOk -> Response(c.req, 500, "Failed to update rating", <<>>)
                      [] found = None -> Response(c.req, 404, "Problem not found", <<>>)
                      [] OTHER -> Response(c.req, 403, "You can only rate your own problems", <<>>)
     /\ UNCHANGED <<shadow, nodeEnv, now, problems, cache, sessionSecret, tmpFiles, uploads, clientCsrf, writeDoneAt>>

\* prisma.problem.update commits, or throws.
RatingUpdate(i, dbOk) ==
  LET c == inflight[i]
  IN /\ c.kind = "rating" /\ c.pc = "update"
     /\ IF dbOk
          THEN /\ problems' = [problems EXCEPT ![c.req.id].rating = c.req.rating]
               /\ inflight' = [inflight EXCEPT ![i].pc = "updated"]
               /\ UNCHANGED last
          ELSE /\ inflight' = [inflight EXCEPT ![i] = Idle]
               /\ last' = Response(c.req, 500, "Failed to update rating", <<>>)
               /\ UNCHANGED problems
     /\ UNCHANGED <<shadow, nodeEnv, now, cache, sessionSecret, tmpFiles, uploads, clientCsrf, writeDoneAt>>

\* Mutant of the invalidation: the detail entry is forgotten.
RatingInvalidateListsOnly(c, id, userId) ==
  CacheDelete(CacheDelete(c, KeyAll), KeyUser(userId))

\* Mutant of the invalidation: the whole cache is emptied.
RatingInvalidateEverything(c, id, userId) == CacheClearAll(c)

RatingInvalidate(c, id, userId) ==
  CacheDelete(CacheDelete(CacheDelete(c, KeyProblem(id)), KeyAll), KeyUser(userId))

\* After the update: invalidate the detail entry and the lists, answer.
RatingFinish(i) ==
  LET c == inflight[i]
      userId == SessionUser(c.req.session)
  IN /\ c.kind = "rating" /\ c.pc = "updated"
     /\ cache' = RatingInvalidate(cache, c.req.id, userId)
     /\ inflight' = [inflight EXCEPT ![i] = Idle]
     /\ last' = Response(c.req, 200, "",
                          [id |-> c.req.id, rating |-> c.req.rating])
     /\ writeDoneAt' = now
     /\ UNCHANGED <<shadow, nodeEnv, now, problems, sessionSecret, tmpFiles, uploads, clientCsrf>>

\* ---- POST /api/classify-problems (batch repair)
\* The end of the run: the list entries are invalidated.
\* Mutant of the run's invalidation: the per-user lists are kept.
RepairInvalidateAllOnly(c) == CacheDelete(c, KeyAll)

RepairInvalidateLists(c) ==
  LET c1 == CacheDelete(c, KeyAll)
  IN [k \in {x \in DOMAIN c1 : ~IsUserListKey(x)} |-> c1[k]]

RepairBegin(s, tok) ==
  LET pass == CsrfProtection("POST", <<"api", "classify-problems">>, tok, sessionSecret[s])
      r == [kind |-> "repair", session |-> s, token |-> tok, secret |-> sessionSecret[s]]
  IN /\ HasFreeSlot
     /\ IF pass
          THEN /\ inflight' = [inflight EXCEPT ![FreeSlot] =
                     [kind |-> "repair", pc |-> "query", req |-> r, todo |-> <<>>,
                      answer |-> None, subject |-> None, totalFound |-> 0, processed |-> 0,
                      errors |-> 0, written |-> {}, failed |-> {},
                      aiFailed |-> {}, setAtQuery |-> {}]]
               /\ UNCHANGED last
          ELSE /\ last' = Response(r, 403, "Invalid CSRF token", <<>>)
               /\ UNCHANGED inflight
     /\ UNCHANGED <<shadow, nodeEnv, now, problems, cache, sessionSecret, tmpFiles, uploads, clientCsrf, writeDoneAt>>

\* findMany({where: {subject: null}}) returns the run's snapshot, or throws.
\* (written, failed, aiFailed and setAtQuery record what the run did and saw,
\* for the properties: the rows it updated, the rows whose update threw, the
\* rows whose AI call failed, the rows whose subject was set at the query.)
RepairQuery(i, dbOk) ==
  LET c == inflight[i]
      ids == FindUnclassified(problems)
  IN /\ c.kind = "repair" /\ c.pc = "query"
     /\ IF dbOk /\ ids # <<>>
          THEN /\ inflight' = [inflight EXCEPT ![i].pc = "classify", ![i].todo = ids,
                     ![i].totalFound = Len(ids),
                     ![i].setAtQuery = {k \in 1..Len(problems) : problems[k].subject # None}]
               /\ UNCHANGED last
          ELSE /\ inflight' = [inflight EXCEPT ![i] = Idle]
               /\ last' =
                    IF dbOk
                      THEN Response(c.req, 200, "No unclassified problems found",
                                    [totalFound |-> 0, processed |-> 0, errors |-> 0,
                                     written |-> {}, failed |-> {}, aiFailed |-> {},
                                     setAtQuery |-> {k \in 1..Len(problems) :
                                                       problems[k].subject # None}])
                      ELSE Response(c.req, 500, "Failed to classify problems", <<>>)
     /\ UNCHANGED <<shadow, nodeEnv, now, problems, cache, sessionSecret, tmpFiles, uploads, clientCsrf, writeDoneAt>>

\* classifyProblemSubject returns for the row at the head of the snapshot.
RepairClassify(i, outcome) ==
  LET c == inflight[i]
  IN /\ c.kind = "repair" /\ c.pc = "classify"
     /\ inflight' = [inflight EXCEPT ![i].pc = "update",
                        ![i].answer = Some(outcome),
                        ![i].subject = Some(ClassifyProblemSubject(outcome)),
                        ![i].aiFailed = IF outcome.ok THEN c.aiFailed
                                        ELSE c.aiFailed \cup {Head(c.todo)}]
     /\ UNCHANGED <<shadow, nodeEnv, now, problems, cache, sessionSecret, tmpFiles, uploads, last, clientCsrf, writeDoneAt>>

\* The run after one row is dealt with (c: the run's record with its counts
\* brought up to date, ch: the cache): the next row, or the end of the loop,
\* where the lists are invalidated and the counts are answered.
RepairNextCache(c, ch) ==
  IF Len(c.todo) > 1 THEN ch ELSE RepairInvalidateLists(ch)

RepairNextRun(c) ==
  IF Len(c.todo) > 1
    THEN [c EXCEPT !.pc = "classify", !.todo = Tail(c.todo), !.answer = None,
                   !.subject = None]
    ELSE Idle

\* Mutant of the run's answer: rows whose update threw are counted as
\* processed too.
RepairNextLastMiscount(c, prev) ==
  IF Len(c.todo) > 1 THEN prev
  ELSE Response(c.req, 200, "Classification completed",
                [totalFound |-> c.totalFound, processed |-> c.processed + c.errors,
                 errors |-> c.errors, written |-> c.written, failed |-> c.failed,
                 aiFailed |-> c.aiFailed, setAtQuery |-> c.setAtQuery])

RepairNextLast(c, prev) ==
  IF Len(c.todo) > 1 THEN prev
  ELSE Response(c.req, 200, "Classification completed",
                [totalFound |-> c.totalFound, processed |-> c.processed,
                 errors |-> c.errors, written |-> c.written, failed |-> c.failed,
                 aiFailed |-> c.aiFailed, setAtQuery |-> c.setAtQuery])

RepairNextDone(c, prev, t) == IF Len(c.todo) > 1 THEN prev ELSE t

\* Mutant of the row update: the subject is stored although update threw.
UpdateSubjectAnyway(rows, id, subject, dbOk) ==
  [rows EXCEPT ![id].subject = subject]

\* prisma.problem.update({where: {id}, data: {subject}})
UpdateSubject(rows, id, subject, dbOk) ==
  IF dbOk THEN [rows EXCEPT ![id].subject = subject] ELSE rows

\* prisma.problem.update commits the subject, or throws into the row's catch
\* (errors++), after which the loop goes on.
RepairUpdate(i, dbOk) ==
  LET c == inflight[i]
      id == Head(c.todo)
      e == [c EXCEPT !.errors = c.errors + 1, !.failed = c.failed \cup {id}]
  IN /\ c.kind = "repair" /\ c.pc = "update"
     /\ problems' = UpdateSubject(problems, id, c.subject, dbOk)
     /\ IF dbOk
          THEN /\ inflight' = [inflight EXCEPT ![i].pc = "updated"]
               /\ UNCHANGED <<cache, last, writeDoneAt>>
          ELSE /\ inflight' = [inflight EXCEPT ![i] = RepairNextRun(e)]
               /\ cache' = RepairNextCache(e, cache)
               /\ last' = RepairNextLast(e, last)
               /\ writeDoneAt' = RepairNextDone(e, writeDoneAt, now)
     /\ UNCHANGED <<shadow, nodeEnv, now, sessionSecret, tmpFiles, uploads, clientCsrf>>

\* After the update: the row's detail entry is invalidated, processed++.
RepairRowDone(i) ==
  LET c == inflight[i]
      id == Head(c.todo)
      d == [c EXCEPT !.processed = c.processed + 1, !.written = c.written \cup {id}]
  IN /\ c.kind = "repair" /\ c.pc = "updated"
     /\ inflight' = [inflight EXCEPT ![i] = RepairNextRun(d)]
     /\ cache' = RepairNextCache(d, CacheDelete(cache, KeyProblem(id)))
     /\ last' = RepairNextLast(d, last)
     /\ writeDoneAt' = RepairNextDone(d, writeDoneAt, now)
     /\ UNCHANGED <<shadow, nodeEnv, now, problems, sessionSecret, tmpFiles, uploads, clientCsrf>>

\* ---- GET /api/cache/stats, POST /api/cache/clear
CacheStatsRoute ==
  LET st == CacheGetStats(cache, now)
  IN /\ cache' = st.cache
     /\ last' = Response([kind |-> "cache-stats"], 200, "",
                          [size |-> st.size, keys |-> st.keys])
     /\ UNCHANGED <<shadow, nodeEnv, now, problems, sessionSecret, tmpFiles, uploads, inflight, clientCsrf, writeDoneAt>>

\* Mutant of the route: a token that passed is used up, the secret is dropped.
CacheClearRouteOneTime(s, tok) ==
  LET pass == CsrfProtection("POST", <<"api", "cache", "clear">>, tok, sessionSecret[s])
      r == [kind |-> "cache-clear", session |-> s, token |-> tok, secret |-> sessionSecret[s]]
  IN /\ cache' = IF pass THEN CacheClearAll(cache) ELSE cache
     /\ sessionSecret' = IF pass THEN [sessionSecret EXCEPT ![s] = NoSecret]
                         ELSE sessionSecret
     /\ last' = IF pass THEN Response(r, 200, "Cache cleared successfully", <<>>)
                 ELSE Response(r, 403, "Invalid CSRF token", <<>>)
     /\ UNCHANGED <<shadow, nodeEnv, now, problems, tmpFiles, uploads, inflight, clientCsrf, writeDoneAt>>

CacheClearRoute(s, tok) ==
  LET pass == CsrfProtection("POST", <<"api", "cache", "clear">>, tok, sessionSecret[s])
      r == [kind |-> "cache-clear", session |-> s, token |-> tok, secret |-> sessionSecret[s]]
  IN /\ cache' = IF pass THEN CacheClearAll(cache) ELSE cache
     /\ last' = IF pass THEN Response(r, 200, "Cache cleared successfully", <<>>)
                 ELSE Response(r, 403, "Invalid CSRF token", <<>>)
     /\ UNCHANGED <<shadow, nodeEnv, now, problems, sessionSecret, tmpFiles, uploads, inflight, clientCsrf, writeDoneAt>>

\* ---- the Cache methods, called one at a time
\* the same call has taken the Map to c2 and the Map that never sweeps to p2
ShadowAfter(c2, p2) ==
  [order |-> OrderAfter(shadow.order, c2),
   plain |-> p2,
   plainOrder |-> OrderAfter(shadow.plainOrder, p2)]

CacheKeys == {KeyAll, KeyProblem(1)}
CacheValues == {"v1", "v2"}
\* the ttl argument: left out (the default applies), or given
TtlInputs == {None, Some(0), Some(2)}

CacheMethodSet(k, v, ttl) ==
  /\ cache' = CacheSet(cache, k, v, IF ttl = None THEN DefaultTTL ELSE ttl[1], now)
  /\ last' = Response([kind |-> "cache.set", key |-> k, value |-> v, ttl |-> ttl],
                       200, "", <<>>)
  /\ shadow' = ShadowAfter(cache', SetWithoutSweep(shadow.plain, k, v,
                               IF ttl = None THEN DefaultTTL ELSE ttl[1], now))
  /\ UNCHANGED <<nodeEnv, now, problems, sessionSecret, tmpFiles, uploads, inflight, clientCsrf, writeDoneAt>>

CacheMethodGet(k) ==
  LET got == CacheGet(cache, k, now)
  IN /\ cache' = got.cache
     /\ last' = Response([kind |-> "cache.get", key |-> k], 200, "",
                          [value |-> got.value])
     /\ shadow' = ShadowAfter(cache', CacheGet(shadow.plain, k, now).cache)
     /\ UNCHANGED <<nodeEnv, now, problems, sessionSecret, tmpFiles, uploads, inflight, clientCsrf, writeDoneAt>>

CacheMethodDelete(k) ==
  /\ cache' = CacheDelete(cache, k)
  /\ last' = Response([kind |-> "cache.delete", key |-> k], 200, "", <<>>)
  /\ shadow' = ShadowAfter(cache', CacheDelete(shadow.plain, k))
  /\ UNCHANGED <<nodeEnv, now, problems, sessionSecret, tmpFiles, uploads, inflight, clientCsrf, writeDoneAt>>

CacheMethodClear ==
  /\ cache' = CacheClearAll(cache)
  /\ last' = Response([kind |-> "cache.clear"], 200, "", <<>>)
  /\ shadow' = ShadowAfter(cache', CacheClearAll(shadow.plain))
  /\ UNCHANGED <<nodeEnv, now, problems, sessionSecret, tmpFiles, uploads, inflight, clientCsrf, writeDoneAt>>

CacheMethodStats ==
  LET st == CacheGetStats(cache, now)
  IN /\ cache' = st.cache
     /\ last' = Response([kind |-> "cache.stats"], 200, "",
                          [size |-> st.size, keys |-> st.keys])
     /\ shadow' = ShadowAfter(cache', CacheGetStats(shadow.plain, now).cache)
     /\ UNCHANGED <<nodeEnv, now, problems, sessionSecret, tmpFiles, uploads, inflight, clientCsrf, writeDoneAt>>

\* ---- POST /auth/logout
\* csrfProtection, then req.logout and req.session.destroy: the session's
\* store, the CSRF secret with it, is gone.  (The login goes with it too;
\* LogoutSpec has no route that asks for a login.)
LogoutRoute(s, tok) ==
  LET pass == CsrfProtection("POST", <<"auth", "logout">>, tok, sessionSecret[s])
      r == [kind |-> "logout", session |-> s, token |-> tok, secret |-> sessionSecret[s]]
  IN /\ sessionSecret' = IF pass THEN [sessionSecret EXCEPT ![s] = NoSecret]
                         ELSE sessionSecret
     /\ last' = IF pass THEN Response(r, 200, "Logged out successfully", <<>>)
                 ELSE Response(r, 403, "Invalid CSRF token", <<>>)
     /\ UNCHANGED <<shadow, nodeEnv, now, problems, cache, tmpFiles, uploads, inflight, clientCsrf, writeDoneAt>>

\* --------------------------------------------------------- specifications
\* Requests, by the sets their inputs are drawn from.
AnalyzeRequest(S, T, U, Q) ==
  \E s \in S, tok \in T, u \in U, q \in Q : AnalyzeBegin(s, tok, u, q)

RatingRequest(S, T, I, R) ==
  \E s \in S, tok \in T, id \in I, r \in R : RatingBegin(s, tok, id, r)

RepairRequest(S, T) == \E s \in S, tok \in T : RepairBegin(s, tok)

CacheClearRequest(S, T) == \E s \in S, tok \in T : CacheClearRoute(s, tok)

ListRequest(S, M) == \E s \in S, m \in M : ListBegin(s, m)

GetRequest(I) == \E id \in I : GetBegin(id)

AnalyzeSteps(O) ==
  \/ \E i \in Slots, ok \in BOOLEAN : AnalyzeExplain(i, ok)
  \/ \E i \in Slots, o \in O : AnalyzeClassify(i, o)
  \/ \E i \in Slots, ok \in BOOLEAN : AnalyzeCreate(i, ok)
  \/ \E i \in Slots : AnalyzeFinish(i)

RatingSteps ==
  \/ \E i \in Slots, ok \in BOOLEAN : RatingFind(i, ok)
  \/ \E i \in Slots, ok \in BOOLEAN : RatingUpdate(i, ok)
  \/ \E i \in Slots : RatingFinish(i)

RepairSteps(O) ==
  \/ \E i \in Slots, ok \in BOOLEAN : RepairQuery(i, ok)
  \/ \E i \in Slots, o \in O : RepairClassify(i, o)
  \/ \E i \in Slots, ok \in BOOLEAN : RepairUpdate(i, ok)
  \/ \E i \in Slots : RepairRowDone(i)

ListSteps ==
  \/ \E i \in Slots, ok \in BOOLEAN : ListQuery(i, ok)
  \/ \E i \in Slots : ListFill(i)

GetSteps ==
  \/ \E i \in Slots, ok \in BOOLEAN : GetQuery(i, ok)
  \/ \E i \in Slots : GetFill(i)

Issue ==
  \E s \in Sessions, h \in Hooks, k \in Secrets, salt \in Salts : CsrfTokenRoute(s, h, k, salt)

\* The server as the source assembles it, seen at its CSRF layer: browsers
\* fetch tokens and send mutating requests with any header.  (No session
\* ever holds a secret here, so no mutating request gets past the guard and
\* the steps behind it are never enabled.)
Jpeg == Some([mimetype |-> "image/jpeg", size |-> 1024])

Next ==
  \/ Issue
  \/ AnalyzeRequest(Sessions, PresentedTokens, {None, Jpeg}, {None})
  \/ RatingRequest(Sessions, PresentedTokens, {1}, {"thumbs_up"})
  \/ RepairRequest(Sessions, PresentedTokens)
  \/ CacheClearRequest(Sessions, PresentedTokens)

Spec == Init /\ [][Next]_vars

\* The handlers behind the guard are exercised with sessions whose store
\* already holds a CSRF secret and whose browser holds the token made from
\* it, the state GET /api/csrf-token is documented to set up.
ProvisionedSecrets ==
  { [s \in Sessions |-> CASE s = "sA" -> "k1" [] s = "sB" -> "k2" [] OTHER -> NoSecret],
    [s \in Sessions |-> CASE s = "sA" -> NoSecret [] s = "sB" -> "k2" [] OTHER -> "k3"] }

ClientOf(secrets) ==
  [s \in Sessions |-> [h \in Hooks |->
     IF secrets[s] = NoSecret
       THEN [csrfToken |-> NoToken, loading |-> FALSE, error |-> TRUE]
       ELSE [csrfToken |-> CsrfCreate(secrets[s], "salt1"),
             loading |-> FALSE, error |-> FALSE]]]

GuardInit ==
  /\ InitCommon
  /\ sessionSecret \in ProvisionedSecrets
  /\ clientCsrf = ClientOf(sessionSecret)

ProvisionedInit ==
  /\ InitCommon
  /\ sessionSecret = [s \in Sessions |->
        CASE s = "sA" -> "k1" [] s = "sB" -> "k2" [] OTHER -> NoSecret]
  /\ clientCsrf = ClientOf(sessionSecret)

\* No request is being handled.
Quiet == \A i \in Slots : inflight[i].kind = "idle"

AlgebraOrJunk == {AIText(<<"Mathematics - Algebra">>), AIText(<<"history">>)}

\* The guard in front of every mutating route, one request at a time.
GuardNext ==
  \/ Quiet /\ ListRequest({"sA"}, {None})
  \/ ListSteps
  \/ Quiet /\ AnalyzeRequest(Sessions, PresentedTokens, {Jpeg}, {None})
  \/ Quiet /\ RatingRequest(Sessions, PresentedTokens, {1}, {"thumbs_up"})
  \/ Quiet /\ RepairRequest(Sessions, PresentedTokens)
  \/ Quiet /\ CacheClearRequest(Sessions, PresentedTokens)
  \/ AnalyzeSteps({AIText(<<"Mathematics - Algebra">>)})
  \/ RatingSteps
  \/ RepairSteps({AIText(<<"Mathematics - Algebra">>)})

GuardSpec == GuardInit /\ [][GuardNext]_vars

\* useProtectedFetch: the browser of a session sends the token useCSRF holds
\* in the X-CSRF-Token header.
AnalyzeByClient(S, U, Q) ==
  \E s \in S, u \in U, q \in Q : AnalyzeBegin(s, clientCsrf[s]["useProtectedFetch"].csrfToken, u, q)

RatingByClient(S, I, R) ==
  \E s \in S, id \in I, r \in R : RatingBegin(s, clientCsrf[s]["useProtectedFetch"].csrfToken, id, r)

RepairByClient(S) ==
  \E s \in S : RepairBegin(s, clientCsrf[s]["useProtectedFetch"].csrfToken)

\* The analyze route with every kind of upload, requests overlapping.
AnalyzeNext ==
  \/ AnalyzeByClient({"sA", "sAnon"}, UploadInputs, QuestionInputs)
  \/ AnalyzeSteps(AlgebraOrJunk \cup {AIFailure})

AnalyzeSpec == ProvisionedInit /\ [][AnalyzeNext]_vars

\* Creates and list reads of one user, overlapping.
CreateNext ==
  \/ AnalyzeByClient({"sA"}, {Jpeg}, {None})
  \/ AnalyzeSteps({AIText(<<"Mathematics - Algebra">>)})
  \/ ListRequest({"sA"}, {None, Some("true")})
  \/ ListSteps

CreateSpec == ProvisionedInit /\ [][CreateNext]_vars

ThreeOutcomes == AlgebraOrJunk \cup {AIFailure}

\* Batch repair runs overlapping each other and creates.
RepairNext ==
  \/ RepairByClient({"sA"})
  \/ RepairSteps(ThreeOutcomes)
  \/ AnalyzeByClient({"sA"}, {Jpeg}, {None})
  \/ AnalyzeSteps(ThreeOutcomes)

RepairSpec == ProvisionedInit /\ [][RepairNext]_vars

\* Batch repair runs one after the other, overlapping creates.
RepairSerialNext ==
  \/ Busy("repair") = {} /\ RepairByClient({"sA"})
  \/ RepairSteps(ThreeOutcomes)
  \/ AnalyzeByClient({"sA"}, {Jpeg}, {None})
  \/ AnalyzeSteps(ThreeOutcomes)

RepairSerialSpec == ProvisionedInit /\ [][RepairSerialNext]_vars

\* Read-through reads overlapping writes, with time passing.
RaceNext ==
  \/ ListRequest({"sA"}, {None})
  \/ ListSteps
  \/ GetRequest({1})
  \/ GetSteps
  \/ RatingByClient({"sA"}, {1}, {"thumbs_up"})
  \/ RatingSteps
  \/ Tick

RaceSpec == ProvisionedInit /\ [][RaceNext]_vars

\* Ratings by owners and by others, overlapping reads.
RatingNext ==
  \/ RatingByClient({"sA", "sB"}, {1, 2}, {"thumbs_up"})
  \/ RatingSteps
  \/ GetRequest({1})
  \/ GetSteps

RatingSpec == ProvisionedInit /\ [][RatingNext]_vars

\* Batch repair runs one after the other, nothing else writing.
RepairTwiceNext ==
  \/ Busy("repair") = {} /\ RepairByClient({"sA"})
  \/ RepairSteps(ThreeOutcomes)

RepairTwiceSpec == ProvisionedInit /\ [][RepairTwiceNext]_vars

\* The classifier with every kind of answer, in analyze and in batch repair.
ClassifierNext ==
  \/ AnalyzeByClient({"sA"}, {Jpeg}, {None})
  \/ AnalyzeSteps(AIOutcomes)
  \/ Busy("repair") = {} /\ RepairByClient({"sA"})
  \/ RepairSteps(AIOutcomes)

ClassifierSpec == ProvisionedInit /\ [][ClassifierNext]_vars

\* Uploads of every kind by a logged-in user, overlapping list reads.
UploadNext ==
  \/ AnalyzeByClient({"sA"}, UploadInputs, {None})
  \/ AnalyzeSteps({AIText(<<"Mathematics - Algebra">>)})
  \/ ListRequest({"sA"}, {None})
  \/ ListSteps

UploadSpec == ProvisionedInit /\ [][UploadNext]_vars

\* Logouts and cache clears with any header.
LogoutRequest(S, T) == \E s \in S, tok \in T : LogoutRoute(s, tok)

LogoutNext ==
  \/ LogoutRequest(Sessions, PresentedTokens)
  \/ CacheClearRequest(Sessions, PresentedTokens)

LogoutSpec == GuardInit /\ [][LogoutNext]_vars

\* The cache alone: its methods called in any order, with time passing.
CacheInit == Init /\ problems = <<>>

\* A Cache that detail reads have filled up to the sweep threshold: n entries
\* `problem:<id>`, every other one due at time 0, none swept yet.
FilledMap(n) ==
  [k \in {KeyProblem(i + 1) : i \in 1..n} |->
     [value |-> "v1", expiry |-> IF k[2] % 2 = 0 THEN 0 ELSE MaxTime + DetailTTL]]

FilledOrder(n) == [i \in 1..n |-> KeyProblem(i + 1)]

SweepInit ==
  /\ nodeEnv = "production"
  /\ now = 0
  /\ problems = <<>>
  /\ \E n \in {SweepEvery - 2, SweepEvery - 1} :
        /\ cache = FilledMap(n)
        /\ shadow = ShadowOf(FilledMap(n), FilledOrder(n))
  /\ tmpFiles = {}
  /\ uploads = 0
  /\ inflight = [i \in Slots |-> Idle]
  /\ last = Response([kind |-> "none"], 0, "", <<>>)
  /\ writeDoneAt = 0
  /\ sessionSecret = [s \in Sessions |-> NoSecret]
  /\ clientCsrf = [s \in Sessions |-> [h \in Hooks |->
                       [csrfToken |-> NoToken, loading |-> TRUE, error |-> FALSE]]]

CacheNext ==
  \/ \E k \in CacheKeys, v \in CacheValues, ttl \in TtlInputs : CacheMethodSet(k, v, ttl)
  \/ \E k \in CacheKeys : CacheMethodGet(k)
  \/ \E k \in CacheKeys : CacheMethodDelete(k)
  \/ CacheMethodClear
  \/ CacheMethodStats
  \/ Tick

CacheSpec == CacheInit /\ [][CacheNext]_vars

\* The calls on the filled Cache: set reaches the sweep threshold.
SweepNext ==
  \/ \E k \in CacheKeys, ttl \in {Some(0), Some(2)} : CacheMethodSet(k, "v1", ttl)
  \/ \E k \in CacheKeys : CacheMethodGet(k)
  \/ \E k \in CacheKeys : CacheMethodDelete(k)
  \/ CacheMethodClear
  \/ CacheMethodStats
  \/ Tick

SweepSpec == SweepInit /\ [][SweepNext]_vars

\* Ratings of the owner (and a value that is no rating), one after the other,
\* overlapping detail reads.
RatingReadNext ==
  \/ RatingByClient({"sA"}, {1}, RatingInputs)
  \/ RatingSteps
  \/ GetRequest({1})
  \/ GetSteps

RatingReadSpec == ProvisionedInit /\ [][RatingReadNext]_vars

\* The errors that reach the global error handler, in every deployment.
DeployInit ==
  /\ InitState
  /\ nodeEnv \in NodeEnvs
  /\ sessionSecret = [s \in Sessions |->
        CASE s = "sA" -> "k1" [] s = "sB" -> "k2" [] OTHER -> NoSecret]
  /\ clientCsrf = ClientOf(sessionSecret)

DeployNext ==
  \/ Issue
  \/ AnalyzeByClient({"sA"}, UploadInputs, {None})
  \/ AnalyzeSteps({AIText(<<"Mathematics - Algebra">>)})

DeploySpec == DeployInit /\ [][DeployNext]_vars

\* ---- the browser
\* useCSRF's isReady
IsReady(hook) == ~hook.loading /\ hook.csrfToken # NoToken

\* Mutant of the submission: the token travels in the X-CSRF-Token header.
SubmitFieldsInHeader(token) == [header |-> token, form |-> NoToken]

\* Where App.handleSubmit puts the token: in the `_csrf` field of the
\* multipart form, with no X-CSRF-Token header on the request.
SubmitFields(token) == [header |-> NoToken, form |-> token]

\* App.handleSubmit: with an image chosen and the token ready, POST the form.
\* The server's guard sees the request's header.
HandleSubmit(s, upload, q) ==
  LET hook == clientCsrf[s]["App"]
  IN /\ upload # None
     /\ IsReady(hook)
     /\ AnalyzeBegin(s, SubmitFields(hook.csrfToken).header, upload, q)

\* The analyze form of a logged-in user next to the requests the browser
\* sends through protectedFetch.
SubmitNext ==
  \/ \E s \in {"sA", "sB"}, u \in UploadInputs, q \in {Some(QuestionMaxLen)} :
        HandleSubmit(s, u, q)
  \/ RatingByClient({"sA"}, {1}, Ratings)
  \/ RatingSteps
  \/ ListRequest({"sA"}, {None})
  \/ ListSteps

SubmitSpec == ProvisionedInit /\ [][SubmitNext]_vars

\* The `code` field of a response's JSON body, which protectedFetch reads:
\* no answer of the server has one.
ResponseCode(l) == "undefined"

\* protectedFetch's test of the first answer: refresh and retry?
WantsRetry(l) == l.status = 403 /\ ResponseCode(l) = "CSRF_TOKEN_INVALID"

\* App.handleRating: PUT the rating through protectedFetch, which puts the
\* token of its useCSRF instance in the X-CSRF-Token header.  On an answer
\* it wants to retry, protectedFetch awaits refreshToken (one more
\* GET /api/csrf-token) and sends the request again, with the csrfToken of
\* the render that made the call.  (The guard's answer comes with the
\* request's arrival; the later answers of the route carry no code either.)
HandleRating(s, id, rating) ==
  LET h == "useProtectedFetch"
      tok == clientCsrf[s][h].csrfToken
      rejected == ~CsrfProtection("PUT", <<"api", "problems", "rating">>, tok, sessionSecret[s])
      first == Response([kind |-> "rating"], 403, "Invalid CSRF token", <<>>)
      issued == HasSession("GET /api/csrf-token")
  IN /\ IsReady(clientCsrf[s]["App"])
     /\ IsReady(clientCsrf[s][h])
     /\ IF rejected /\ WantsRetry(first)
          THEN \E k \in Secrets, salt \in Salts :
                 /\ \A x \in Sessions : sessionSecret[x] # k
                 /\ sessionSecret' = IF issued THEN [sessionSecret EXCEPT ![s] = k]
                                      ELSE sessionSecret
                 /\ clientCsrf' =
                      IF issued
                        THEN [clientCsrf EXCEPT ![s][h] =
                                [csrfToken |-> CsrfCreate(k, salt), loading |-> FALSE,
                                 error |-> FALSE]]
                        ELSE [clientCsrf EXCEPT ![s][h].error = TRUE]
                 /\ RatingArrive(s, tok, id, rating, sessionSecret'[s])
          ELSE RatingBegin(s, tok, id, rating)

\* authService.logout: POST /auth/logout, no token header
LogoutByClient(S) == \E s \in S : LogoutRoute(s, NoToken)

\* Ratings sent by the browser, before and after its session was destroyed.
RetryNext ==
  \/ \E s \in {"sA", "sB"}, id \in {1}, r \in Ratings : HandleRating(s, id, r)
  \/ RatingSteps
  \/ LogoutByClient({"sA", "sB"})

RetrySpec == ProvisionedInit /\ [][RetryNext]_vars

\* List reads of every caller, logged in or not, with and without the filter.
MineNext ==
  \/ ListRequest(Sessions, {None, Some("true")})
  \/ ListSteps

MineSpec == ProvisionedInit /\ [][MineNext]_vars

\* List reads of a user and of a caller without a login, creates and ratings
\* of the user, one request at a time.
SerialNext ==
  \/ Quiet /\ ListRequest({"sA", "sAnon"}, {None, Some("true")})
  \/ ListSteps
  \/ Quiet /\ AnalyzeByClient({"sA"}, {Jpeg}, {None})
  \/ AnalyzeSteps({AIText(<<"Mathematics - Algebra">>)})
  \/ Quiet /\ RatingByClient({"sA"}, {1, 2}, {"thumbs_up"})
  \/ RatingSteps

SerialSpec == ProvisionedInit /\ [][SerialNext]_vars

\* Batch repair runs one after the other, overlapping detail and list reads.
RepairReadNext ==
  \/ Busy("repair") = {} /\ RepairByClient({"sA"})
  \/ RepairSteps({AIText(<<"Mathematics - Algebra">>)})
  \/ GetRequest({1})
  \/ GetSteps
  \/ ListRequest({"sA"}, {None, Some("true")})
  \/ ListSteps

RepairReadSpec == ProvisionedInit /\ [][RepairReadNext]_vars

\* Batch repair runs one after the other; the AI backend and the database
\* answer every call, so a run in progress takes its next step.
RepairFairSpec ==
  /\ ProvisionedInit
  /\ [][RepairTwiceNext]_vars
  /\ WF_vars(RepairSteps(ThreeOutcomes))

\* Detail reads of ids with and without a row, overlapping creates.
GetCreateNext ==
  \/ GetRequest({1, 2})
  \/ GetSteps
  \/ AnalyzeByClient({"sA"}, {Jpeg}, {None})
  \/ AnalyzeSteps({AIText(<<"Mathematics - Algebra">>)})

GetCreateSpec == ProvisionedInit /\ [][GetCreateNext]_vars

\* ------------------------------------------------------------ properties
MutatingKinds == {"analyze", "rating", "repair", "cache-clear"}

CsrfRejected(l) == l.status = 403 /\ l.error = "Invalid CSRF token"

Mutating(l) == l.req.kind \in MutatingKinds

\* The token was made from the secret another session holds.
FromOtherSession(r) ==
  \E b \in Sessions \ {r.session}, salt \in Salts :
    /\ sessionSecret[b] # NoSecret
    /\ r.token = CsrfCreate(sessionSecret[b], salt)

\* C1 (as claimed): once the token-issuance request of a session has
\* completed, the token the browser got from it is accepted by the CSRF guard
\* on a mutating request of that session.
C1_IssuedTokenAccepted ==
  [][\A s \in Sessions, h \in Hooks :
       (/\ ~clientCsrf[s][h].loading
        /\ last' # last
        /\ Mutating(last')
        /\ last'.req.session = s
        /\ last'.req.token = clientCsrf[s][h].csrfToken)
         => ~CsrfRejected(last')]_vars

\* C7: a mutating request to a non-exempt path whose token header is absent,
\* or whose session holds no secret, is answered 403 'Invalid CSRF token', its
\* handler never runs, and it changes no row, file or cache entry.
C7_State ==
  /\ \A i \in Slots : inflight[i].kind \in MutatingKinds =>
        inflight[i].req.token # NoToken /\ inflight[i].req.secret # NoSecret
  /\ (Mutating(last) /\ (last.req.token = NoToken \/ last.req.secret = NoSecret))
        => CsrfRejected(last)

C7_Step ==
  (/\ last' # last
   /\ Mutating(last')
   /\ (last'.req.token = NoToken \/ last'.req.secret = NoSecret))
    => UNCHANGED <<problems, cache, tmpFiles, inflight>>

C7_FailsClosed == [](C7_State) /\ [][C7_Step]_vars

C7_Witness ==
  /\ last.req.kind = "cache-clear"
  /\ last.req.token # NoToken
  /\ last.req.secret = NoSecret
  /\ CsrfRejected(last)
  /\ cache # <<>>
  /\ problems # <<>>

\* C8: a mutating request of one session that presents a token made from the
\* secret of a different session is answered 403 'Invalid CSRF token' and its
\* handler does not run.
C8_CrossSessionRejected ==
  /\ \A i \in Slots : inflight[i].kind \in MutatingKinds =>
        ~FromOtherSession(inflight[i].req)
  /\ (Mutating(last) /\ FromOtherSession(last.req)) => CsrfRejected(last)

C8_Witness ==
  /\ last.req.kind = "rating"
  /\ sessionSecret[last.req.session] # NoSecret
  /\ FromOtherSession(last.req)
  /\ CsrfRejected(last)

\* C2 (as claimed): when an analyze request whose upload was stored in
\* uploads/ has been answered, whatever the exit path, the stored file is gone.
C2_NoTempFileLeft ==
  (last.req.kind = "analyze" /\ last.req.file # None) =>
    last.req.file[1] \notin tmpFiles

\* ---- creates and list reads
\* The rows an analyze request created (legacy rows have no subject and no
\* repair runs in CreateSpec), and those whose request has been answered.
Created == {k \in 1..Len(problems) : problems[k].subject # None}

CreateAnswered ==
  {k \in Created :
     \A i \in Slots : ~(inflight[i].kind = "analyze" /\ inflight[i].pc = "created"
                        /\ inflight[i].id = k)}

Newest(S) == CHOOSE k \in S : \A j \in S : j <= k

NewestFirst(rows, S) == rows # <<>> /\ Head(rows).id = Newest(S)

\* C3 (as claimed): once a create has been answered, a list(all) or
\* list(mine) read of the creator that begins afterwards returns the new row
\* first, also when the cache serves it.
C3_NextListShowsCreate ==
  [][(/\ last' # last
      /\ last'.req.kind = "list"
      /\ last'.status = 200
      /\ last'.body.from = "cache"
      /\ CreateAnswered # {})
       => NewestFirst(last'.body.rows, CreateAnswered)]_vars

\* C3 (amended): the answer of a create leaves no entry under problems:all
\* and problems:user_<creator>, and a list query that runs once the row is
\* committed returns it first.  (A list read whose query ran before the commit
\* may still store the older set afterwards.)
C3_Step ==
  /\ (/\ last' # last
      /\ last'.req.kind = "analyze"
      /\ last'.status = 200)
       => /\ KeyAll \notin DOMAIN cache'
          /\ KeyUser(SessionUser(last'.req.session)) \notin DOMAIN cache'
  /\ \A i \in Slots :
       (/\ inflight[i].kind = "list" /\ inflight[i].pc = "query"
        /\ inflight'[i].kind = "list" /\ inflight'[i].pc = "fill"
        /\ Created # {})
         => NewestFirst(inflight'[i].rows, Created)

C3_CreateInvalidatesLists == [][C3_Step]_vars

\* a list(mine) read that missed after a create, answered with the new row
\* first, while problems:all still holds rows
C3_Witness ==
  /\ last.req.kind = "list"
  /\ last.req.mine = Some("true")
  /\ last.status = 200
  /\ last.body.from = "db"
  /\ Len(last.body.rows) >= 2
  /\ Head(last.body.rows).subject # None
  /\ KeyAll \in DOMAIN cache

\* ---- subjects
\* C4: every persisted subject is absent or a member of AVAILABLE_SUBJECTS,
\* whatever the AI answered, written by analyze or by batch repair.
C4_SubjectInEnumeration ==
  \A k \in 1..Len(problems) :
    problems[k].subject = None \/ IsSubject(problems[k].subject[1])

\* a repaired legacy row and a created row, one of them on the fallback
C4_Witness ==
  /\ Len(problems) >= 2
  /\ problems[1].subject = Some(FallbackSubject)
  /\ problems[Len(problems)].subject = Some(<<"Mathematics - Algebra">>)
  /\ last.req.kind = "repair"
  /\ last.status = 200
  /\ last.body.written # {}

\* C5 (as claimed): a batch-repair run writes a subject only to a row whose
\* subject is absent at the write, also when runs overlap.
C5_WritesOnlyAbsent ==
  [][\A i \in Slots :
       (/\ inflight[i].kind = "repair" /\ inflight[i].pc = "update"
        /\ inflight'[i].kind = "repair" /\ inflight'[i].pc = "updated")
         => problems[Head(inflight[i].todo)].subject = None]_vars

\* C5 (amended): a run selects and writes only rows whose subject was absent
\* when it queried; rows whose subject was set by then are never written by it.
C5_State ==
  /\ \A i \in Slots :
       (inflight[i].kind = "repair" /\ inflight[i].pc # "query") =>
         /\ \A k \in 1..Len(inflight[i].todo) :
              inflight[i].todo[k] \notin inflight[i].setAtQuery
         /\ inflight[i].written \cap inflight[i].setAtQuery = {}
  /\ (last.req.kind = "repair" /\ last.status = 200) =>
       last.body.written \cap last.body.setAtQuery = {}

C5_Step ==
  \A i \in Slots :
    (/\ inflight[i].kind = "repair" /\ inflight[i].pc = "update"
     /\ inflight'[i] # inflight[i]
     /\ problems' # problems)
      => \A k \in 1..Len(problems) :
           problems'[k] # problems[k] => k \notin inflight[i].setAtQuery

C5_WritesOnlySnapshotAbsent == [](C5_State) /\ [][C5_Step]_vars

\* a run that skipped a classified row and wrote another
C5_Witness ==
  /\ last.req.kind = "repair"
  /\ last.status = 200
  /\ last.body.written # {}
  /\ last.body.setAtQuery # {}

\* C6 (as claimed): when a run ends, every row whose AI call failed or whose
\* update failed in it still has no subject.
C6_ErroredRowsStayAbsent ==
  [][(/\ last' # last
      /\ last'.req.kind = "repair"
      /\ last'.status = 200)
       => \A k \in last'.body.failed \cup last'.body.aiFailed :
            problems'[k].subject = None]_vars

\* C6 (amended): with no other run overlapping, a row whose update failed has
\* no subject when the run ends and is selected by the next run; a row whose
\* AI call failed and whose update went through holds the fallback subject.
C6_Step ==
  (/\ last' # last
   /\ last'.req.kind = "repair"
   /\ last'.status = 200)
    => /\ \A k \in last'.body.failed :
            /\ problems'[k].subject = None
            /\ Includes(FindUnclassified(problems'), k)
       /\ \A k \in last'.body.aiFailed \ last'.body.failed :
            /\ problems'[k].subject = Some(FallbackSubject)
            /\ k \in last'.body.written
       /\ last'.body.errors = Cardinality(last'.body.failed)
       /\ last'.body.processed = Cardinality(last'.body.written)

C6_FailedUpdatesStayAbsent == [][C6_Step]_vars

\* a run in which one row's update failed and another row's AI call failed
C6_Witness ==
  /\ last.req.kind = "repair"
  /\ last.status = 200
  /\ last.body.failed # {}
  /\ last.body.aiFailed \ last.body.failed # {}
  /\ \A k \in last.body.failed : problems[k].subject = None

\* ---- read-through reads and writes
CacheKeyOf(r) ==
  IF r.kind = "list" THEN ListCacheKey(r.session, r.mine) ELSE KeyProblem(r.id)

TTLOf(k) == IF k[1] = "problems" THEN ListTTL ELSE DetailTTL

\* what storage holds for the request now
StoredFor(r, rows) ==
  IF r.kind = "list" THEN FindMany(rows, ListWhere(r.session, r.mine))
  ELSE FindUnique(rows, r.id)[1]

Served(l) == IF l.req.kind = "list" THEN l.body.rows ELSE l.body.row

FromCache(l) ==
  /\ l.req.kind \in {"list", "get"}
  /\ l.status = 200
  /\ l.body.from = "cache"

\* C9 (as claimed): with no write in flight, a read served from the cache
\* with a value that differs from storage happens within one TTL of the
\* answer of the latest write.
C9_StaleWithinTTLOfWrite ==
  [][(/\ last' # last
      /\ FromCache(last')
      /\ Busy("rating") = {}
      /\ Served(last') # StoredFor(last'.req, problems))
       => now <= writeDoneAt + TTLOf(CacheKeyOf(last'.req))]_vars

\* C9 (amended): a value is served from the cache only within one TTL of the
\* moment it was stored there.
C9_State ==
  \A k \in DOMAIN cache : cache[k].expiry <= now + TTLOf(k)

C9_Step ==
  (last' # last /\ FromCache(last')) =>
    LET k == CacheKeyOf(last'.req)
    IN /\ k \in DOMAIN cache
       /\ Served(last') = cache[k].value
       /\ now <= cache[k].expiry

C9_ServedWithinTTLOfStore == [](C9_State) /\ [][C9_Step]_vars

\* a stale list served from the cache at the last minute of its entry
C9_Witness ==
  /\ FromCache(last)
  /\ last.req.kind = "list"
  /\ KeyAll \in DOMAIN cache
  /\ cache[KeyAll].expiry = now
  /\ last.body.rows # FindMany(problems, None)

\* ---- ratings
\* The request is for a row that exists and that the requester does not own.
NotOwner(r) ==
  /\ r.kind = "rating"
  /\ r.id \in 1..Len(problems)
  /\ problems[r.id].userId # SessionUser(r.session)

\* C10: a rating request of an authenticated user for a row of someone else
\* is answered 403 (500 when the lookup itself fails), never reaches the
\* update, and none of its steps changes a row or a cache entry.
C10_State ==
  /\ \A i \in Slots :
       (inflight[i].kind = "rating" /\ NotOwner(inflight[i].req)) =>
         inflight[i].pc = "find"
  /\ NotOwner(last.req) =>
       \/ last.status = 403 /\ last.error = "You can only rate your own problems"
       \/ last.status = 500

C10_Step ==
  /\ \A i \in Slots :
       (/\ inflight[i].kind = "rating"
        /\ NotOwner(inflight[i].req)
        /\ inflight'[i] # inflight[i])
         => UNCHANGED <<problems, cache>>
  /\ (last' # last /\ NotOwner(last'.req)) => UNCHANGED <<problems, cache>>

C10_NonOwnerRatingRefused == [](C10_State) /\ [][C10_Step]_vars

\* a refused rating of a row its owner has rated, the detail being cached
C10_Witness ==
  /\ NotOwner(last.req)
  /\ IsAuthenticated(last.req.session)
  /\ last.status = 403
  /\ problems[last.req.id].rating = "thumbs_up"
  /\ KeyProblem(last.req.id) \in DOMAIN cache

\* ---- batch repair, run after run
\* A run ends in this step with its counts answered.
RunAnswered ==
  /\ \E i \in Slots : inflight[i].kind = "repair" /\ inflight'[i].kind = "idle"
  /\ last'.req.kind = "repair"
  /\ last'.status = 200

PreviousRunAnswered == last.req.kind = "repair" /\ last.status = 200

\* C11 (as claimed): a batch-repair run that follows a run, with no write in
\* between, finds and classifies no row.
C11_SecondRunClassifiesNone ==
  [][(RunAnswered /\ PreviousRunAnswered)
       => last'.body.totalFound = 0 /\ last'.body.processed = 0]_vars

\* C11 (amended): the run that follows a run, with no write in between, finds
\* exactly the rows whose update failed in the run before: none when that run
\* counted no error.
C11_Step ==
  (RunAnswered /\ PreviousRunAnswered) =>
    /\ last'.body.totalFound = last.body.errors
    /\ last'.body.processed + last'.body.errors = last'.body.totalFound
    /\ last.body.errors = 0 =>
         /\ last'.error = "No unclassified problems found"
         /\ problems' = problems

C11_SecondRunFindsFailedRows == [][C11_Step]_vars

\* a second run that found nothing, every row classified by the first
C11_Witness ==
  /\ PreviousRunAnswered
  /\ last.error = "No unclassified problems found"
  /\ Len(problems) = 2
  /\ \A k \in 1..Len(problems) : problems[k].subject # None

\* ---- the classifier's result
\* The requests that hold a classifier result, and the row it is stored in.
Classified(c) ==
  \/ c.kind = "analyze" /\ c.pc \in {"create", "created"}
  \/ c.kind = "repair" /\ c.pc \in {"update", "updated"}

Stored(c) ==
  \/ c.kind = "analyze" /\ c.pc = "created"
  \/ c.kind = "repair" /\ c.pc = "updated"

StoredRow(c) == IF c.kind = "analyze" THEN c.id ELSE Head(c.todo)

\* C12 (as claimed): an answer that is not, as it came, a member of the
\* enumeration gives 'Other'; an answer that is a member gives that member.
C12_ExactMatchOrFallback ==
  \A i \in Slots :
    (Classified(inflight[i]) /\ inflight[i].answer[1].ok) =>
      LET text == inflight[i].answer[1].text
      IN inflight[i].subject[1] = IF IsSubject(text) THEN text ELSE FallbackSubject

\* C12 (amended): the answer is trimmed first; a trimmed answer that is a
\* member of the enumeration is the result and is stored verbatim, any other
\* gives 'Other'.
C12_TrimmedMatchOrFallback ==
  \A i \in Slots :
    (Classified(inflight[i]) /\ inflight[i].answer[1].ok) =>
      LET trimmed == Trim(inflight[i].answer[1].text)
      IN /\ IsSubject(trimmed) => inflight[i].subject[1] = trimmed
         /\ ~IsSubject(trimmed) => inflight[i].subject[1] = FallbackSubject
         /\ Stored(inflight[i]) =>
              problems[StoredRow(inflight[i])].subject = inflight[i].subject

\* an answer with whitespace around a member, stored as the member
C12_Witness ==
  \E i \in Slots :
    /\ Stored(inflight[i])
    /\ inflight[i].answer[1] = AIText(<<" ", "History", "\n">>)
    /\ problems[StoredRow(inflight[i])].subject = Some(<<"History">>)

\* ---- analyze: failures of the AI backend
\* C13: when the classification call of an analyze fails, the request goes
\* on with the fallback subject, the row is stored with it, and the answer is
\* a success carrying it.
C13_State ==
  /\ \A i \in Slots :
       (/\ inflight[i].kind = "analyze"
        /\ inflight[i].pc \in {"create", "created"}
        /\ inflight[i].answer = Some(AIFailure)) =>
          /\ inflight[i].subject = Some(FallbackSubject)
          /\ inflight[i].pc = "created" =>
               problems[inflight[i].id].subject = Some(FallbackSubject)
  /\ (/\ last.req.kind = "analyze"
      /\ last.status = 200
      /\ last.body.answer = AIFailure) =>
        /\ last.body.subject = FallbackSubject
        /\ problems[last.body.problemId].subject = Some(FallbackSubject)

\* the classification step neither answers nor ends the request, and the
\* request whose create went through is answered 200
C13_Step ==
  \A i \in Slots :
    /\ (/\ inflight[i].kind = "analyze" /\ inflight[i].pc = "classify"
        /\ inflight'[i] # inflight[i]) =>
          /\ inflight'[i].kind = "analyze" /\ inflight'[i].pc = "create"
          /\ UNCHANGED <<last, problems, tmpFiles>>
    /\ (/\ inflight[i].kind = "analyze" /\ inflight[i].pc = "created"
        /\ inflight'[i] # inflight[i]) =>
          /\ last'.req = inflight[i].req
          /\ last'.status = 200

C13_ClassifierFailureDegrades == [](C13_State) /\ [][C13_Step]_vars

C13_Witness ==
  /\ last.req.kind = "analyze"
  /\ last.status = 200
  /\ last.body.answer = AIFailure
  /\ last.body.aiCalls = 2
  /\ problems[last.body.problemId].subject = Some(FallbackSubject)

\* C14: when the explanation call fails the request ends with 500 'Failed to
\* analyze the problem'; no row is stored, no cache entry changes, and the
\* classifier runs only for requests whose explanation call returned.
C14_State ==
  \A i \in Slots :
    (inflight[i].kind = "analyze" /\ inflight[i].pc # "explain") =>
      inflight[i].aiCalls >= 1

C14_Step ==
  \A i \in Slots :
    (/\ inflight[i].kind = "analyze" /\ inflight[i].pc = "explain"
     /\ inflight'[i].kind = "idle") =>
       /\ last'.req = inflight[i].req
       /\ last'.status = 500
       /\ last'.error = "Failed to analyze the problem"
       /\ last'.body.aiCalls = 0
       /\ UNCHANGED <<problems, cache>>
       /\ inflight[i].req.file[1] \notin tmpFiles'

C14_ExplanationFailureAborts == [](C14_State) /\ [][C14_Step]_vars

\* an aborted analyze while both lists of the user are cached
C14_Witness ==
  /\ last.req.kind = "analyze"
  /\ last.status = 500
  /\ last.error = "Failed to analyze the problem"
  /\ last.body.aiCalls = 0
  /\ KeyAll \in DOMAIN cache
  /\ KeyUser(SessionUser(last.req.session)) \in DOMAIN cache

\* ---- analyze: the upload checks
TooLarge(u) == u # None /\ u[1].size > 5 * 1024 * 1024

WrongType(u) ==
  u # None /\ u[1].mimetype \notin {"image/jpeg", "image/png", "image/gif", "image/webp"}

\* C15: an upload of a type outside the allow-list or above 5MB is refused
\* before any AI call: its request never reaches an await, no row is stored
\* and no cache entry changes.
C15_State ==
  /\ \A i \in Slots :
       inflight[i].kind = "analyze" =>
         ~TooLarge(inflight[i].req.upload) /\ ~WrongType(inflight[i].req.upload)
  /\ (/\ last.req.kind = "analyze"
      /\ (TooLarge(last.req.upload) \/ WrongType(last.req.upload))) =>
        last.status >= 400

C15_Step ==
  (/\ last' # last
   /\ last'.req.kind = "analyze"
   /\ (TooLarge(last'.req.upload) \/ WrongType(last'.req.upload))) =>
     UNCHANGED <<problems, cache, inflight>>

C15_BadUploadRefusedEarly == [](C15_State) /\ [][C15_Step]_vars

\* a text/plain upload refused while the list is cached and rows exist
C15_Witness ==
  /\ last.req.kind = "analyze"
  /\ WrongType(last.req.upload)
  /\ last.status = 400
  /\ last.error = "Invalid file type"
  /\ KeyAll \in DOMAIN cache
  /\ problems # <<>>

\* C16 (as claimed): an upload above the size ceiling, sent by a logged-in
\* user with a valid token, is answered with a 4xx signal.
C16_TooLargeIsValidationError ==
  (/\ last.req.kind = "analyze"
   /\ TooLarge(last.req.upload)
   /\ IsAuthenticated(last.req.session)
   /\ CsrfVerify(last.req.secret, last.req.token)) =>
     last.status \in 400..499

\* ---- logout
\* C17 (as claimed): a logout request without a valid CSRF token is answered
\* 403 'Invalid CSRF token' and the session is not destroyed.
C17_LogoutNeedsToken ==
  [][(/\ last' # last
      /\ last'.req.kind = "logout"
      /\ ~CsrfVerify(last'.req.secret, last'.req.token))
       => /\ CsrfRejected(last')
          /\ sessionSecret' = sessionSecret]_vars

\* ---- the cache's methods
\* This step is a call of the method (Tick is the only step that moves now).
Called(method) == now' = now /\ last'.req.kind = method

TtlGiven(r) == IF r.ttl = None THEN 5 ELSE r.ttl[1]

\* C18: set(k, v, ttl) stores v with expiry now + ttl; until the next set or
\* delete of k (or clear) the entry stays as stored, unless it is removed
\* once expired; get(k) returns the stored value up to the expiry, and
\* afterwards, as for a key never set, absent, leaving no entry for k.
C18_Step ==
  /\ Called("cache.set") =>
       LET k == last'.req.key
       IN /\ k \in DOMAIN cache'
          /\ cache'[k] = [value |-> last'.req.value, expiry |-> now + TtlGiven(last'.req)]
  /\ Called("cache.get") =>
       LET k == last'.req.key
       IN IF k \in DOMAIN cache /\ now <= cache[k].expiry
            THEN last'.body.value = Some(cache[k].value) /\ cache' = cache
            ELSE last'.body.value = None /\ k \notin DOMAIN cache'
  /\ \A k \in DOMAIN cache :
       \/ k \in DOMAIN cache' /\ cache'[k] = cache[k]
       \/ now > cache[k].expiry
       \/ Called("cache.set") /\ last'.req.key = k
       \/ Called("cache.delete") /\ last'.req.key = k
       \/ Called("cache.clear")

C18_GetAfterSet == [][C18_Step]_vars

\* a value returned at the last instant of its ttl
C18_Witness ==
  /\ last.req.kind = "cache.get"
  /\ last.body.value = Some("v2")
  /\ last.req.key \in DOMAIN cache
  /\ cache[last.req.key].expiry = now
  /\ now = 2

\* C19: delete(k) removes k's entry and nothing else (nothing at all when k
\* has none), so a get(k) that follows returns absent; clear() leaves no
\* entry, so a stats() that follows reports size 0.
C19_Step ==
  /\ Called("cache.delete") =>
       /\ last'.req.key \notin DOMAIN cache'
       /\ DOMAIN cache' = DOMAIN cache \ {last'.req.key}
       /\ \A x \in DOMAIN cache' : cache'[x] = cache[x]
  /\ (/\ last.req.kind = "cache.delete"
      /\ Called("cache.get")
      /\ last'.req.key = last.req.key) => last'.body.value = None
  /\ Called("cache.clear") => DOMAIN cache' = {}
  /\ (last.req.kind = "cache.clear" /\ Called("cache.stats")) =>
       last'.body.size = 0 /\ last'.body.keys = {}

C19_DeleteAndClear == [][C19_Step]_vars

\* a delete that removed one entry and left the other
C19_Witness ==
  /\ last.req.kind = "cache.delete"
  /\ last.req.key \notin DOMAIN cache
  /\ cache # <<>>
  /\ now > 0

\* ---- a rating, then a detail read
\* C20 (as claimed): once a rating of the owner has been answered and no
\* rating is in flight, a get-by-id that begins returns the stored rating,
\* also when the cache serves it.
C20_NextGetShowsRating ==
  [][(/\ last' # last
      /\ last'.req.kind = "get"
      /\ last'.status = 200
      /\ last'.body.from = "cache"
      /\ Busy("rating") = {}
      /\ problems[last'.req.id].rating # Null)
       => last'.body.row.rating = problems[last'.req.id].rating]_vars

\* C20 (amended): the update stores r over whatever rating was there, the
\* answer of the rating leaves no entry under problem:<id>, and a get-by-id
\* whose query runs after the update returns r.  (A get-by-id whose query ran
\* before the update may still store the older row afterwards.)
C20_Step ==
  /\ \A i \in Slots :
       (/\ inflight[i].kind = "rating" /\ inflight[i].pc = "update"
        /\ inflight'[i].kind = "rating" /\ inflight'[i].pc = "updated") =>
          problems'[inflight[i].req.id].rating = inflight[i].req.rating
  /\ (/\ \E i \in Slots : inflight[i].kind = "rating" /\ inflight[i].pc = "updated"
                         /\ inflight'[i].kind = "idle"
      /\ last'.req.kind = "rating") =>
        /\ last'.status = 200
        /\ KeyProblem(last'.req.id) \notin DOMAIN cache'
  /\ \A i \in Slots :
       (/\ inflight[i].kind = "get" /\ inflight[i].pc = "query"
        /\ inflight'[i].kind = "get" /\ inflight'[i].pc = "fill"
        /\ inflight[i].req.id \in 1..Len(problems)) =>
          /\ inflight'[i].found # None
          /\ inflight'[i].found[1].rating = problems[inflight[i].req.id].rating

C20_RatingInvalidatesDetail == [][C20_Step]_vars

\* a second rating stored over the first, which a read in flight has seen
C20_Witness ==
  \E i, j \in Slots :
    /\ inflight[i].kind = "rating" /\ inflight[i].pc = "updated"
    /\ inflight[i].req.rating = "thumbs_down"
    /\ problems[inflight[i].req.id].rating = "thumbs_down"
    /\ inflight[j].kind = "get" /\ inflight[j].pc = "fill"
    /\ inflight[j].found # None
    /\ inflight[j].found[1].rating = "thumbs_up"

\* C21: every successful analyze persists exactly one new problem row; its
\* response carries that row's id and the row's stored subject, a member of
\* the enumeration; the row's owner is the authenticated requester.
C21_State ==
  /\ (last.req.kind = "analyze" /\ last.status = 200) =>
        LET id == last.body.problemId
        IN /\ id \in 1..Len(problems)
           /\ problems[id].id = id
           /\ problems[id].subject = Some(last.body.subject)
           /\ IsSubject(last.body.subject)
           /\ SessionUser(last.req.session) \in {"1", "2"}
           /\ problems[id].userId = SessionUser(last.req.session)
  /\ \A i, j \in Slots :
        (/\ i # j
         /\ inflight[i].kind = "analyze" /\ inflight[i].pc = "created"
         /\ inflight[j].kind = "analyze" /\ inflight[j].pc = "created")
          => inflight[i].id # inflight[j].id

C21_Step ==
  \A i \in Slots :
    /\ (inflight[i].kind = "idle" /\ inflight'[i].kind = "analyze") => problems' = problems
    /\ (inflight[i].kind = "analyze" /\ inflight'[i] # inflight[i]) =>
          IF inflight[i].pc = "create" /\ inflight'[i].kind = "analyze"
            THEN /\ Len(problems') = Len(problems) + 1
                 /\ SubSeq(problems', 1, Len(problems)) = problems
                 /\ inflight'[i].pc = "created"
                 /\ inflight'[i].id = Len(problems')
            ELSE /\ problems' = problems
                 /\ (last'.req = inflight[i].req /\ last'.status = 200) <=>
                       inflight[i].pc = "created"
                 /\ inflight[i].pc = "created" => last'.body.problemId = inflight[i].id

C21_AnalyzePersistsOneRow == [](C21_State) /\ [][C21_Step]_vars

C21_Witness ==
  /\ last.req.kind = "analyze" /\ last.status = 200
  /\ last.req.session = "sA"
  /\ Len(problems) = 2
  /\ last.body.problemId = 2
  /\ problems[1].userId = NoUser
  /\ problems[2].userId = "1"
  /\ problems[2].subject = Some(<<"Mathematics - Algebra">>)

\* what the global error handler sent
FromErrorHandler(l) == l.status = 500 /\ l.error = "Internal server error"

\* C22 (as claimed): an error that reaches the global error handler is
\* answered with a generic failure that carries no error message text, in
\* every deployment configuration.
C22_NoDetailAnywhere == FromErrorHandler(last) => last.body.details = None

\* C22 (amended): an error that reaches the global error handler is answered
\* 500 'Internal server error'; the answer carries no detail when NODE_ENV is
\* 'production', and the error's message text in every other deployment.
C22_DetailOutsideProduction ==
  /\ last.req.kind = "csrf-token" => FromErrorHandler(last)
  /\ (/\ last.req.kind = "analyze"
      /\ last.req.upload # None
      /\ ~CsrfRejected(last)
      /\ last.status # 401) =>
        (last.req.upload[1].size > FileSizeLimit => FromErrorHandler(last))
  /\ FromErrorHandler(last) =>
        /\ nodeEnv = "production" => last.body.details = None
        /\ nodeEnv # "production" =>
              last.body.details =
                Some(IF last.req.kind = "csrf-token" THEN SessionTypeError ELSE FileTooLarge)

C22_Witness ==
  /\ nodeEnv = "production"
  /\ last.req.kind = "analyze"
  /\ FromErrorHandler(last)
  /\ last.body.details = None

\* C23: getStats reports only live entries: every key it returns is one for
\* which get at the same instant returns a value, no live key is left out,
\* and the reported size is the number of those keys.
C23_StatsReportsLive ==
  [][Called("cache.stats") =>
       /\ last'.body.keys = {k \in DOMAIN cache : now <= cache[k].expiry}
       /\ last'.body.size = Cardinality(last'.body.keys)
       /\ \A k \in CacheKeys :
             k \in last'.body.keys <=> CacheGet(cache', k, now').value # None]_vars

C23_Witness ==
  /\ last.req.kind = "cache.stats"
  /\ now >= 3
  /\ last.body.size = 1
  /\ last.body.keys = {KeyAll}
  /\ DOMAIN cache = {KeyAll}
  /\ cache[KeyAll].expiry = now

\* C24: in every reachable state every persisted problem's rating is absent,
\* 'thumbs_up' or 'thumbs_down'; a setRating request with any other value is
\* rejected (400 once past the guard and the login test) and changes nothing.
C24_State ==
  /\ \A n \in 1..Len(problems) : problems[n].rating \in {Null, "thumbs_up", "thumbs_down"}
  /\ \A i \in Slots : inflight[i].kind = "rating" =>
        inflight[i].req.rating \in {"thumbs_up", "thumbs_down"}
  /\ (last.req.kind = "rating" /\ last.req.rating \notin {"thumbs_up", "thumbs_down"}) =>
        /\ last.status \in {400, 401, 403}
        /\ (~CsrfRejected(last) /\ SessionUser(last.req.session) # NoUser) =>
              (last.status = 400 /\ last.error = "Validation failed")

C24_Step ==
  (/\ last' # last
   /\ last'.req.kind = "rating"
   /\ last'.req.rating \notin {"thumbs_up", "thumbs_down"})
    => UNCHANGED <<problems, cache, inflight>>

C24_RatingDomain == [](C24_State) /\ [][C24_Step]_vars

C24_Witness ==
  /\ last.req.kind = "rating"
  /\ last.req.rating = "meh"
  /\ last.status = 400
  /\ Len(problems) >= 1
  /\ problems[1].rating = "thumbs_up"
  /\ KeyProblem(1) \in DOMAIN cache

\* the request carried a token that verifies against its session's secret
PassedGuard(r) == r.secret # NoSecret /\ CsrfVerify(r.secret, r.token)

\* C25: an analyze or setRating request that passes the CSRF guard but has no
\* authenticated user is answered 401 'Authentication required'; no upload is
\* stored, no AI call is made, and no row or cache entry changes.
C25_State ==
  /\ \A i \in Slots : inflight[i].kind \in {"analyze", "rating"} =>
        SessionUser(inflight[i].req.session) # NoUser
  /\ (/\ last.req.kind \in {"analyze", "rating"}
      /\ PassedGuard(last.req)
      /\ SessionUser(last.req.session) = NoUser) =>
        /\ last.status = 401
        /\ last.error = "Authentication required"
        /\ last.req.kind = "analyze" => last.req.file = None

C25_Step ==
  (/\ last' # last
   /\ last'.req.kind \in {"analyze", "rating"}
   /\ PassedGuard(last'.req)
   /\ SessionUser(last'.req.session) = NoUser)
    => UNCHANGED <<problems, cache, tmpFiles, uploads, inflight>>

C25_AuthRequired == [](C25_State) /\ [][C25_Step]_vars

C25_Witness ==
  /\ last.req.kind = "analyze"
  /\ last.req.session = "sAnon"
  /\ last.req.upload # None
  /\ PassedGuard(last.req)
  /\ last.status = 401
  /\ Len(problems) >= 1

\* C26 (as claimed): every request to GET /api/csrf-token completes
\* successfully, the session's store then holds a newly generated secret and
\* the response carries a token that verifies against exactly that secret.
C26_IssuanceSucceeds ==
  [][\A s \in Sessions, h \in Hooks :
       (/\ clientCsrf'[s][h] # clientCsrf[s][h]
        /\ last'.req.kind = "csrf-token")
         => /\ last'.status = 200
            /\ sessionSecret'[s] # NoSecret
            /\ sessionSecret'[s] # sessionSecret[s]
            /\ CsrfVerify(sessionSecret'[s], last'.body.csrfToken)]_vars

\* C27 (as claimed): an authenticated client that holds the session's
\* current token and submits the analyze form gets its request past the
\* CSRF guard.
C27_SubmitPassesGuard ==
  \A s \in Sessions :
    (/\ last.req.kind = "analyze"
     /\ last.req.session = s
     /\ SessionUser(s) # NoUser
     /\ CsrfVerify(last.req.secret, clientCsrf[s]["App"].csrfToken))
      => ~CsrfRejected(last)

\* C28 (as claimed): once every useCSRF instance of a session (App's and
\* useProtectedFetch's) has completed its token-issuance request, the token
\* each instance holds verifies against the session's stored secret.
C28_HeldTokensVerify ==
  \A s \in Sessions :
    (\A h \in Hooks : ~clientCsrf[s][h].loading) =>
      \A h \in Hooks : CsrfVerify(sessionSecret[s], clientCsrf[s][h].csrfToken)

\* C29 (as claimed): when a non-GET request sent through protectedFetch is
\* rejected by the CSRF guard, protectedFetch refreshes the token and sends
\* the request once more, and the retry carries the refreshed token.
C29_RejectedIsRetried ==
  [][\A s \in Sessions :
       (/\ last' # last
        /\ inflight' = inflight
        /\ last'.req.kind = "rating"
        /\ last'.req.session = s
        /\ ~CsrfVerify(sessionSecret[s], clientCsrf[s]["useProtectedFetch"].csrfToken))
         => /\ clientCsrf'[s]["useProtectedFetch"].csrfToken
                 # clientCsrf[s]["useProtectedFetch"].csrfToken
            /\ last'.req.token = clientCsrf'[s]["useProtectedFetch"].csrfToken]_vars

\* C30 (as claimed): a list request with the mine filter returns only rows
\* owned by the requesting user, whoever the caller is (logged in or not) and
\* whatever the cache holds.
C30_MineOnlyOwnRows ==
  (/\ last.req.kind = "list"
   /\ last.status = 200
   /\ last.req.mine = Some("true")) =>
     \A n \in 1..Len(last.body.rows) :
       last.body.rows[n].userId = SessionUser(last.req.session)

\* the id of the row a create or a rating wrote
WrittenId(l) == IF l.req.kind = "analyze" THEN l.body.problemId ELSE l.req.id

\* some caller stores its list under key k, and its query returns row id now
ListCovers(k, id) ==
  \E s \in Sessions, m \in {None, Some("true")} :
    /\ ListCacheKey(s, m) = k
    /\ \E n \in 1..Len(FindMany(problems, ListWhere(s, m))) :
          FindMany(problems, ListWhere(s, m))[n].id = id

\* C31 (as claimed): when a create or a successful rating has been answered
\* with no other request in progress, the cache holds no list entry whose
\* query returns the written row, whichever caller and filter stored it.
C31_NoListEntryLeft ==
  (/\ Quiet
   /\ last.req.kind \in {"analyze", "rating"}
   /\ last.status = 200) =>
     \A k \in DOMAIN cache : ~ListCovers(k, WrittenId(last))

\* C32: a successful rating of row id deletes exactly the entries
\* problem:<id>, problems:all and the owner's list and leaves every other
\* entry and every other row as they were; the update changes the rating of
\* that row only; a rating of an id with no row is answered 404 (500 when the
\* lookup itself fails) and changes nothing.
C32_Step ==
  \A i \in Slots :
    (inflight[i].kind = "rating" /\ inflight'[i] # inflight[i]) =>
      LET c == inflight[i]
          id == c.req.id
      IN /\ c.pc = "updated" =>
              /\ last'.req = c.req /\ last'.status = 200
              /\ DOMAIN cache' =
                   DOMAIN cache \ {KeyProblem(id), KeyAll, KeyUser(problems[id].userId)}
              /\ \A k \in DOMAIN cache' : cache'[k] = cache[k]
              /\ problems' = problems
         /\ (c.pc = "update" /\ inflight'[i].kind = "rating") =>
              /\ cache' = cache
              /\ Len(problems') = Len(problems)
              /\ \A n \in 1..Len(problems) :
                    problems'[n] = IF n = id THEN Row(id, problems[id].userId,
                                                      problems[id].subject, c.req.rating)
                                   ELSE problems[n]
         /\ (c.pc = "find" /\ id \notin 1..Len(problems)) =>
              /\ last'.req = c.req
              /\ last'.status \in {404, 500}
              /\ last'.status = 404 <=> last'.error = "Problem not found"
              /\ inflight'[i] = Idle
              /\ UNCHANGED <<problems, cache>>

C32_RatingFrame == [][C32_Step]_vars

C32_Witness ==
  /\ last.req.kind = "rating" /\ last.status = 200 /\ last.req.id = 1
  /\ Len(problems) = 2
  /\ problems[1].rating = "thumbs_up"
  /\ problems[2].rating = Null
  /\ DOMAIN cache = {KeyUser(Anonymous)}

\* C33: in create and in setRating the cache deletions happen only after the
\* write has been persisted, together with the success response; the write
\* step itself, a failed write and every rejection delete nothing.
C33_Step ==
  \A i \in Slots :
    /\ (inflight[i].kind = "idle" /\ inflight'[i].kind \in {"analyze", "rating"}) =>
          cache' = cache
    /\ (inflight[i].kind \in {"analyze", "rating"} /\ inflight'[i] # inflight[i]) =>
          LET c == inflight[i]
          IN /\ cache' # cache =>
                  /\ c.pc \in {"created", "updated"}
                  /\ last'.req = c.req /\ last'.status = 200
             /\ c.pc \in {"create", "update"} => cache' = cache
             /\ c.pc = "created" =>
                  /\ c.id \in 1..Len(problems)
                  /\ problems[c.id].userId = SessionUser(c.req.session)
                  /\ KeyAll \notin DOMAIN cache'
                  /\ KeyUser(SessionUser(c.req.session)) \notin DOMAIN cache'
             /\ c.pc = "updated" =>
                  /\ problems[c.req.id].rating = c.req.rating
                  /\ KeyAll \notin DOMAIN cache'
                  /\ KeyProblem(c.req.id) \notin DOMAIN cache'
             /\ (last'.req = c.req /\ last'.status # 200) => cache' = cache

C33_InvalidateAfterWrite == [][C33_Step]_vars

C33_Witness ==
  /\ last.req.kind = "analyze"
  /\ last.status = 500
  /\ last.body.aiCalls = 2
  /\ KeyAll \in DOMAIN cache
  /\ KeyUser("1") \in DOMAIN cache

\* C34 (as claimed): once a batch-repair run that updated a row has
\* completed, a read that starts afterwards reflects the new subject, also
\* when the cache serves it.
C34_ReadsAfterRunAreFresh ==
  [][(/\ last' # last
      /\ last'.req.kind = "get"
      /\ last'.status = 200
      /\ last'.body.from = "cache"
      /\ Busy("repair") = {}
      /\ problems[last'.req.id].subject # None)
       => last'.body.row.subject = problems[last'.req.id].subject]_vars

\* C34 (amended): the run deletes the detail entry of a row right after that
\* row's update, and problems:all and every per-user list in the step that
\* completes it; a read whose query runs after the update returns the new
\* subject.  (A read whose query ran before the update may still store the
\* older result afterwards.)
C34_Step ==
  \A i \in Slots :
    /\ (inflight[i].kind = "repair" /\ inflight[i].pc = "updated"
        /\ inflight'[i] # inflight[i]) =>
          /\ problems[Head(inflight[i].todo)].subject = inflight[i].subject
          /\ KeyProblem(Head(inflight[i].todo)) \notin DOMAIN cache'
    /\ (inflight[i].kind = "repair" /\ inflight[i].pc \in {"update", "updated"}
        /\ inflight'[i].kind = "idle") =>
          /\ last'.req.kind = "repair" /\ last'.status = 200
          /\ KeyAll \notin DOMAIN cache'
          /\ \A k \in DOMAIN cache' : ~IsUserListKey(k)
          /\ \A k \in DOMAIN cache' : k \in DOMAIN cache /\ cache'[k] = cache[k]
    /\ (inflight[i].kind = "get" /\ inflight[i].pc = "query"
        /\ inflight'[i].kind = "get" /\ inflight'[i].pc = "fill"
        /\ inflight[i].req.id \in 1..Len(problems)) =>
          inflight'[i].found = Some(problems[inflight[i].req.id])
    /\ (inflight[i].kind = "list" /\ inflight[i].pc = "query"
        /\ inflight'[i].kind = "list" /\ inflight'[i].pc = "fill") =>
          \A n \in 1..Len(inflight'[i].rows) :
            inflight'[i].rows[n] = problems[inflight'[i].rows[n].id]

C34_RunInvalidates == [][C34_Step]_vars

\* a run that updated row 1 has completed; a read that saw the row before the
\* update is about to store it
C34_Witness ==
  /\ last.req.kind = "repair" /\ last.status = 200
  /\ 1 \in last.body.written
  /\ problems[1].subject = Some(<<"Mathematics - Algebra">>)
  /\ DOMAIN cache = {}
  /\ \E j \in Slots :
        /\ inflight[j].kind = "get" /\ inflight[j].pc = "fill"
        /\ inflight[j].found # None
        /\ inflight[j].found[1].subject = None

\* the rows a run has dealt with, and the rows it still has to
Attempted(c) == c.written \cup c.failed
Remaining(c) == {c.todo[n] : n \in 1..Len(c.todo)}

\* C35: a batch-repair run attempts each row of its snapshot exactly once,
\* one classification call at a time, terminates, and reports counts with
\* processed + errors = totalFound.
C35_State ==
  /\ \A i \in Slots :
        (inflight[i].kind = "repair" /\ inflight[i].pc # "query") =>
          LET c == inflight[i]
          IN /\ Cardinality(Remaining(c)) = Len(c.todo)
             /\ Remaining(c) \cap Attempted(c) = {}
             /\ c.written \cap c.failed = {}
             /\ Cardinality(c.written) = c.processed
             /\ Cardinality(c.failed) = c.errors
             /\ c.processed + c.errors + Len(c.todo) = c.totalFound
  /\ (last.req.kind = "repair" /\ last.status = 200) =>
        /\ last.body.processed + last.body.errors = last.body.totalFound
        /\ Cardinality(last.body.written) = last.body.processed
        /\ Cardinality(last.body.failed) = last.body.errors
        /\ last.body.written \cap last.body.failed = {}

C35_Step ==
  \A i \in Slots :
    (inflight[i].kind = "repair" /\ inflight[i].pc # "query"
     /\ inflight'[i] # inflight[i]) =>
      LET c == inflight[i]
          d == inflight'[i]
      IN /\ c.pc = "classify" =>
              /\ d.pc = "update" /\ d.todo = c.todo
              /\ c.answer = None /\ d.answer # None
         /\ c.pc = "update" => c.answer # None
         /\ (c.pc \in {"update", "updated"} /\ d.kind = "repair" /\ d.pc = "classify") =>
              /\ d.todo = Tail(c.todo)
              /\ Attempted(d) = Attempted(c) \cup {Head(c.todo)}
              /\ d.answer = None
         /\ d.kind = "idle" =>
              /\ Len(c.todo) = 1
              /\ last'.req = c.req /\ last'.status = 200
              /\ last'.body.written \cup last'.body.failed = Attempted(c) \cup {Head(c.todo)}

C35_RunCompletes ==
  /\ [](C35_State)
  /\ [][C35_Step]_vars
  /\ \A i \in Slots : (inflight[i].kind = "repair") ~> (inflight[i].kind = "idle")

C35_Witness ==
  /\ last.req.kind = "repair" /\ last.status = 200
  /\ last.body.totalFound = 2
  /\ last.body.processed = 1
  /\ last.body.errors = 1
  /\ last.body.written = {2}
  /\ last.body.failed = {1}

\* C36: a get-by-id of an id with no row is answered 404 and leaves the cache
\* as it was (no entry is ever stored for an id without a row), so a
\* get-by-id whose query runs once the row exists finds and returns the row.
C36_State ==
  \A id \in 1..(MaxProblems + 1) :
    KeyProblem(id) \in DOMAIN cache =>
      /\ id \in 1..Len(problems)
      /\ cache[KeyProblem(id)].value = problems[id]

C36_Step ==
  \A i \in Slots :
    (inflight[i].kind = "get" /\ inflight'[i] # inflight[i]) =>
      LET c == inflight[i]
          d == inflight'[i]
          id == c.req.id
      IN /\ (c.pc = "query" /\ d.kind = "get") =>
              d.found = IF id \in 1..Len(problems) THEN Some(problems[id]) ELSE None
         /\ (c.pc = "fill" /\ c.found = None) =>
              /\ last' = Response(c.req, 404, "Problem not found", <<>>)
              /\ cache' = cache
         /\ (c.pc = "fill" /\ c.found # None) =>
              /\ last'.req = c.req /\ last'.status = 200
              /\ last'.body.row = c.found[1]

C36_MissIsNotCached == [](C36_State) /\ [][C36_Step]_vars

\* a read of id 1 that found no row has been answered 404; the row exists by
\* now and nothing is cached for it
C36_Witness ==
  /\ last.req.kind = "get" /\ last.req.id = 1 /\ last.status = 404
  /\ Len(problems) = 1
  /\ problems[1].userId = "1"
  /\ KeyProblem(1) \notin DOMAIN cache

\* C37: the CSRF guard leaves the session's secret as it is and does not use
\* the token up: the verdict on a mutating request is a function of the
\* secret and the token alone, so a token that passed passes again on the
\* next mutating request of the same session.
C37_Arrived ==
  IF \A i \in Slots : inflight'[i].kind = "idle"
    THEN last'
    ELSE LET i == CHOOSE j \in Slots : inflight'[j].kind # "idle"
         IN Response(inflight'[i].req, 0, "", <<>>)

C37_Step ==
  (Quiet /\ Mutating(C37_Arrived)) =>
    LET a == C37_Arrived
        s == a.req.session
    IN /\ sessionSecret' = sessionSecret
       /\ CsrfRejected(a) <=> ~CsrfVerify(sessionSecret[s], a.req.token)
       /\ (/\ Mutating(last) /\ ~CsrfRejected(last)
           /\ last.req.session = s /\ last.req.token = a.req.token)
            => ~CsrfRejected(a)

C37_VerifyIsStateless == [][C37_Step]_vars

\* the one token of session sA has passed the guard on two creates and on the
\* cache clear that came after them
C37_Witness ==
  /\ Len(problems) = 2
  /\ \A id \in 1..2 : problems[id].userId = "1" /\ problems[id].subject # None
  /\ last.req.kind = "cache-clear" /\ last.status = 200
  /\ last.req.session = "sA"
  /\ last.req.token = CsrfCreate(sessionSecret["sA"], "salt1")

\* the keys array getStats would return at time t, in the Map's order
StatsKeys(c, order, t) ==
  LET Reported(k) == k \in CacheGetStats(c, t).keys
  IN SelectSeq(order, Reported)

GetsAgree ==
  \A k \in DOMAIN cache \cup DOMAIN shadow.plain \cup CacheKeys :
    CacheGet(cache, k, now).value = CacheGet(shadow.plain, k, now).value

\* C38 (as claimed): after every sequence of set/get/delete/clear/stats calls
\* and times, every call returns what it returns from a Cache that never
\* sweeps: get the same value or null, getStats the same size and keys.
C38_SameResults ==
  /\ GetsAgree
  /\ CacheGetStats(cache, now).size = CacheGetStats(shadow.plain, now).size
  /\ StatsKeys(cache, shadow.order, now) = StatsKeys(shadow.plain, shadow.plainOrder, now)

\* C38 (amended): ... get the same value or null, getStats the same size and
\* the same keys; only the order of the keys in the array may differ.
C38_SameUpToKeyOrder ==
  /\ GetsAgree
  /\ CacheGetStats(cache, now).size = CacheGetStats(shadow.plain, now).size
  /\ CacheGetStats(cache, now).keys = CacheGetStats(shadow.plain, now).keys

\* a sweep has removed an expired entry that the other Cache still holds
C38_Witness ==
  /\ \E k \in CacheKeys : k \in DOMAIN shadow.plain /\ k \notin DOMAIN cache
  /\ \E k \in CacheKeys : k \in DOMAIN cache
  /\ last.req.kind = "cache.set"

\* C39: set(k, v2, ttl2) on a key that has an entry puts v2 and now + ttl2 in
\* its place whatever the old entry was (later expiry, or expired already):
\* the Map afterwards is the one a set on the Map without k's entry gives, k
\* keeps its one place among the keys, and no other entry changes.
C39_State ==
  /\ Len(shadow.order) = Cardinality(DOMAIN cache)
  /\ {shadow.order[i] : i \in DOMAIN shadow.order} = DOMAIN cache

C39_Step ==
  (Called("cache.set") /\ last'.req.key \in DOMAIN cache) =>
    LET k == last'.req.key
        ttl == IF last'.req.ttl = None THEN DefaultTTL ELSE last'.req.ttl[1]
    IN /\ cache'[k] = [value |-> last'.req.value, expiry |-> now + ttl]
       /\ cache' = CacheSet(CacheDelete(cache, k), k, last'.req.value, ttl, now)
       /\ DOMAIN cache' = DOMAIN cache
       /\ \A x \in DOMAIN cache \ {k} : cache'[x] = cache[x]
       /\ shadow'.order = shadow.order

C39_SetOverwrites == [](C39_State) /\ [][C39_Step]_vars

\* a set with ttl 0 has just replaced the entry of a key at a time past 0,
\* next to an entry that has expired and is still stored
C39_Witness ==
  /\ last.req.kind = "cache.set" /\ last.req.ttl = Some(0) /\ last.req.value = "v2"
  /\ now >= 2
  /\ DOMAIN cache = CacheKeys
  /\ cache[last.req.key] = [value |-> "v2", expiry |-> now]
  /\ \E x \in CacheKeys \ {last.req.key} : cache[x].expiry < now

\* C40: get and cleanup test an entry alike: a cleanup at any instant removes
\* the entries for which a get at that instant returns absent and keeps, as
\* they are, the entries a get returns, one read at the instant equal to its
\* expiry among them.
C40_State ==
  \A t \in 0..MaxTime :
    LET swept == CacheCleanup(cache, t)
    IN \A k \in DOMAIN cache :
         /\ k \in DOMAIN swept <=> CacheGet(cache, k, t).value # None
         /\ k \in DOMAIN swept <=> t <= cache[k].expiry
         /\ k \in DOMAIN swept => swept[k] = cache[k]

C40_Step ==
  Called("cache.stats") =>
    \A k \in DOMAIN cache :
      k \in DOMAIN cache' <=> CacheGet(cache, k, now).value # None

C40_SameExpiryTest == [](C40_State) /\ [][C40_Step]_vars

\* the cleanup of getStats has just kept an entry at the instant of its
\* expiry, the entry a get at this instant returns
C40_Witness ==
  /\ last.req.kind = "cache.stats"
  /\ last.body.size = 1
  /\ now >= 1
  /\ \E k \in CacheKeys :
        /\ DOMAIN cache = {k}
        /\ cache[k].expiry = now
        /\ CacheGet(cache, k, now).value = Some(cache[k].value)
        /\ k \in DOMAIN CacheCleanup(cache, now)
  /\ Len(shadow.order) = 1

====
